---- MODULE Spec2Model ----
(***************************************************************************)
(* Document store and import/merge engine of marvin-cli.                   *)
(*                                                                         *)
(* The disk is a set of files (directory, file name, serialized document); *)
(* the store keeps an in-memory index beside it.  Identifiers are kept as  *)
(* a prefix and a digit string, so that formatting (padStart) and parsing  *)
(* (parseInt) are real conversions.                                        *)
(*                                                                         *)
(* Beside the store stands the intake directory (sources) with its         *)
(* persisted manifest, and the SourceManifestManager built over it.        *)
(* The pure functions (resolver, rewriter, codec) are applied to inputs    *)
(* held in the variable pure.                                              *)
(***************************************************************************)
EXTENDS Integers, Sequences, FiniteSets, TLC

VARIABLES files, index, now, lastOp, plan, sources, manager, mOp, pure

vars == <<files, index, now, lastOp, plan, sources, manager, mOp, pure>>

\* What a call on the document store or the import engine leaves alone.
besideStore == <<sources, manager, mOp, pure>>

\* What a call on the manifest manager leaves alone.
besideManifest == <<files, index, lastOp, plan, pure>>

(***************************************************************************)
(* Bounds of the model.                                                    *)
(***************************************************************************)
MaxFiles == 2
MaxClock == 1
MaxBatch == 2

(***************************************************************************)
(* Clock: timestamps are ticks, the date part of an ISO timestamp          *)
(* (slice(0, 10)) is the day the tick falls in.                            *)
(***************************************************************************)
TicksPerDay == 2

Day(t) == t \div TicksPerDay

(***************************************************************************)
(* Registered document types: the core types plus the "meeting"            *)
(* registration of the common plugin.                                      *)
(***************************************************************************)
CORE_TYPE_DIRS ==
  [decision |-> "decisions", action |-> "actions", question |-> "questions"]

CORE_ID_PREFIXES == [decision |-> "D", action |-> "A", question |-> "Q"]

COMMON_REGISTRATIONS ==
  <<[type |-> "meeting", dirName |-> "meetings", idPrefix |-> "M"]>>

Spread(a, b) ==
  [k \in (DOMAIN a) \cup (DOMAIN b) |-> IF k \in DOMAIN b THEN b[k] ELSE a[k]]

RegTypes == {COMMON_REGISTRATIONS[i].type : i \in DOMAIN COMMON_REGISTRATIONS}

RegOf(t) ==
  COMMON_REGISTRATIONS[CHOOSE i \in DOMAIN COMMON_REGISTRATIONS :
                         COMMON_REGISTRATIONS[i].type = t]

typeDirs == Spread(CORE_TYPE_DIRS, [t \in RegTypes |-> RegOf(t).dirName])

idPrefixes == Spread(CORE_ID_PREFIXES, [t \in RegTypes |-> RegOf(t).idPrefix])

\* Object.keys(this.typeDirs): insertion order.
registeredTypes == <<"decision", "action", "question", "meeting">>

(***************************************************************************)
(* Identifiers: <prefix>-<digits>.                                         *)
(***************************************************************************)
MkId(p, d) == [p |-> p, d |-> d]

RECURSIVE ParseInt(_)
ParseInt(d) ==
  IF d = <<>> THEN 0
  ELSE 10 * ParseInt(SubSeq(d, 1, Len(d) - 1)) + d[Len(d)]

RECURSIVE ToDigits(_)
ToDigits(n) ==
  IF n < 10 THEN <<n>> ELSE Append(ToDigits(n \div 10), n % 10)

RECURSIVE PadStart(_, _)
PadStart(d, w) == IF Len(d) >= w THEN d ELSE PadStart(<<0>> \o d, w)

(***************************************************************************)
(* Document text: a sequence of tokens; whitespace tokens are trimmed by   *)
(* the parser, id tokens are what the cross-reference rewriter matches.    *)
(***************************************************************************)
NL == <<"nl">>

Word(w) == <<"w", w>>

Ref(id) == <<"id", id>>

IsSpace(tok) == tok[1] = "nl"

RECURSIVE TrimStart(_)
TrimStart(s) ==
  IF s # <<>> /\ IsSpace(Head(s)) THEN TrimStart(Tail(s)) ELSE s

RECURSIVE TrimEnd(_)
TrimEnd(s) ==
  IF s # <<>> /\ IsSpace(s[Len(s)])
  THEN TrimEnd(SubSeq(s, 1, Len(s) - 1)) ELSE s

Trim(s) == TrimEnd(TrimStart(s))

\* The YAML of the frontmatter.  A string that a plain scalar would not
\* give back as that string (it reads as a number, a boolean, null or a
\* timestamp, or is empty) is dumped in quotes; a plain scalar is resolved
\* to the value it reads as when loaded.
YamlImplicit == {"123", "true", "null", ""}

ResolvePlain(text) ==
  CASE text = "123"  -> "number 123"
    [] text = "true" -> "boolean true"
    [] text = "null" -> "null"
    [] text = ""     -> "null"
    [] OTHER         -> text

DumpString(v) == IF v \in YamlImplicit THEN <<"quoted", v>> ELSE <<"plain", v>>

LoadString(n) == IF n[1] = "quoted" THEN n[2] ELSE ResolvePlain(n[2])

\* id is <PREFIX>-<digits>, a plain scalar; created and updated are ISO
\* timestamps, which read as dates and are therefore quoted; tags is a
\* sequence of strings; the other fields are strings.
DumpValue(k, v) ==
  CASE k = "id" -> <<"plain", v>>
    [] k \in {"created", "updated"} -> <<"quoted", v>>
    [] k = "tags" -> <<"seq", [i \in DOMAIN v |-> DumpString(v[i])]>>
    [] OTHER -> DumpString(v)

LoadValue(k, n) ==
  CASE k \in {"id", "created", "updated"} -> n[2]
    [] k = "tags" -> [i \in DOMAIN n[2] |-> LoadString(n[2][i])]
    [] OTHER -> LoadString(n)

YamlDump(data) == [k \in DOMAIN data |-> DumpValue(k, data[k])]

YamlLoad(yaml) == [k \in DOMAIN yaml |-> LoadValue(k, yaml[k])]

\* matter.stringify(content ? "\n" + content + "\n" : "\n", frontmatter)
serializeDocument(doc) ==
  [data    |-> YamlDump(doc.frontmatter),
   content |-> IF doc.content # <<>> THEN <<NL>> \o doc.content \o <<NL>>
               ELSE <<NL>>]

\* parseDocument that keeps the text after the frontmatter as it is.
parseDocument_NoTrim(raw, filePath) ==
  [frontmatter |-> YamlLoad(raw.data), content |-> raw.content,
   filePath |-> filePath]

\* matter(raw) and content.trim()
parseDocument(raw, filePath) ==
  [frontmatter |-> YamlLoad(raw.data), content |-> Trim(raw.content),
   filePath |-> filePath]

(***************************************************************************)
(* File names and the order readdir lists them in (byte order).            *)
(***************************************************************************)
IdFileName(id) == [kind |-> "id", p |-> id.p, d |-> id.d]

MeetingFileName(day, slug) == [kind |-> "slug", p |-> slug, d |-> <<day>>]

slugify(title) ==
  CASE title = "Kickoff"  -> "kickoff"
    [] title = "kickoff"  -> "kickoff"
    [] title = "Use REST" -> "use-rest"
    [] title = "Untitled" -> "untitled"
    [] OTHER              -> "retro"

PrefixKey(p) ==
  CASE p = "A" -> 65 [] p = "D" -> 68 [] p = "M" -> 77 [] OTHER -> 81

SlugKey(s) ==
  CASE s = "kickoff" -> <<107>>
    [] s = "retro"   -> <<114>>
    [] s = "untitled" -> <<117, 110>>
    [] OTHER         -> <<117, 115>>

NameKey(name) ==
  IF name.kind = "id"
  THEN <<PrefixKey(name.p), 45>> \o [i \in 1..Len(name.d) |-> 48 + name.d[i]]
       \o <<46>>
  ELSE <<50, 48 + name.d[1], 45>> \o SlugKey(name.p) \o <<46>>

RECURSIVE LexLess(_, _)
LexLess(a, b) ==
  IF b = <<>> THEN FALSE
  ELSE IF a = <<>> THEN TRUE
  ELSE IF Head(a) # Head(b) THEN Head(a) < Head(b)
  ELSE LexLess(Tail(a), Tail(b))

(***************************************************************************)
(* Disk access.                                                            *)
(***************************************************************************)
FilePath(f) == [dir |-> f.dir, name |-> f.name]

ReadFile(f) == parseDocument(f.raw, FilePath(f))

readdir(fs, dir) == {f \in fs : f.dir = dir}

writeFile(fs, path, doc) ==
  {f \in fs : FilePath(f) # path}
    \cup {[dir |-> path.dir, name |-> path.name, raw |-> serializeDocument(doc)]}

FirstByName(S) ==
  CHOOSE f \in S : \A g \in S : g = f \/ LexLess(NameKey(f.name), NameKey(g.name))

Carriers(fs, type, id) ==
  {f \in readdir(fs, typeDirs[type]) : ReadFile(f).frontmatter.id = id}

\* DocumentStore.get: is there a document carrying the id, and which one
\* the scan returns (first registered type, first file of its directory).
Has(fs, id) == \E i \in DOMAIN registeredTypes : Carriers(fs, registeredTypes[i], id) # {}

get(fs, id) ==
  LET i == CHOOSE i \in DOMAIN registeredTypes :
             /\ Carriers(fs, registeredTypes[i], id) # {}
             /\ \A j \in 1..(i - 1) : Carriers(fs, registeredTypes[j], id) = {}
  IN ReadFile(FirstByName(Carriers(fs, registeredTypes[i], id)))

Max(S) == CHOOSE x \in S : \A y \in S : y <= x

\* nextId that forgets the increment.
nextId_NoIncrement(fs, type) ==
  LET prefix == idPrefixes[type]
      nums == {ParseInt(f.name.d) :
                 f \in {g \in readdir(fs, typeDirs[type]) :
                          g.name.kind = "id" /\ g.name.p = prefix /\ g.name.d # <<>>}}
      maxNum == Max(nums \cup {1})
  IN MkId(prefix, PadStart(ToDigits(maxNum), 3))

\* DocumentStore.nextId, for a registered type.
nextId(fs, type) ==
  LET prefix == idPrefixes[type]
      nums == {ParseInt(f.name.d) :
                 f \in {g \in readdir(fs, typeDirs[type]) :
                          g.name.kind = "id" /\ g.name.p = prefix /\ g.name.d # <<>>}}
      maxNum == Max(nums \cup {0})
  IN MkId(prefix, PadStart(ToDigits(maxNum + 1), 3))

Registered(type) == type \in DOMAIN idPrefixes

mapSet(m, k, v) == [x \in (DOMAIN m) \cup {k} |-> IF x = k THEN v ELSE m[x]]

EmptyMap == [x \in {} |-> x]

(***************************************************************************)
(* Results of calls.                                                       *)
(***************************************************************************)
NoId == MkId("", <<>>)

\* The last call: its name, its type argument, its id argument, the error
\* it threw ("" when it returned), the id it returned and, for
\* executeImportPlan, the counts <<imported, skipped, copied>> it returned.
Call(op, type, arg, err, id, result) ==
  [op |-> op, type |-> type, arg |-> arg, err |-> err, id |-> id,
   result |-> result]

NoPlan == [built |-> FALSE]

\* The intake directory before `marvin init` made it, no manager
\* constructed, no manager call made, no pure function applied.
NoSources == [exists |-> FALSE, files |-> EmptyMap, manifestFile |-> <<>>]

NoManager == [constructed |-> FALSE]

NoCall == [op |-> "none"]

NoPure == [fn |-> "none"]

InitStore ==
  /\ files = {}
  /\ index = EmptyMap
  /\ now = 1
  /\ lastOp = Call("init", "", NoId, "", NoId, <<>>)
  /\ plan = NoPlan

Init ==
  /\ InitStore
  /\ sources = NoSources
  /\ manager = NoManager
  /\ mOp = NoCall
  /\ pure = NoPure

(***************************************************************************)
(* DocumentStore operations, as functions of the store state               *)
(* st = [files, index] returning the new state, the error thrown (if any)  *)
(* and the id of the returned document.                                    *)
(***************************************************************************)
Store(fs, idx) == [files |-> fs, index |-> idx]

Thrown(st, msg) ==
  [files |-> st.files, index |-> st.index, err |-> msg, id |-> NoId]

Returned(fs, idx, id) == [files |-> fs, index |-> idx, err |-> "", id |-> id]

\* Object.fromEntries(Object.entries(x).filter(([, v]) => v !== undefined)):
\* a partial frontmatter maps a key to <<>> (undefined) or to <<value>>.
Cleaned(partial) ==
  [k \in {x \in DOMAIN partial : partial[x] # <<>>} |-> partial[k][1]]

create(st, type, frontmatter, content, t) ==
  IF ~Registered(type) THEN Thrown(st, "Unknown document type")
  ELSE
    LET id == nextId(st.files, type)
        fullFrontmatter ==
          Spread([id |-> id, title |-> "Untitled", type |-> type,
                  status |-> "open", created |-> t, updated |-> t],
                 Cleaned(frontmatter))
        fileName == IF type = "meeting"
                    THEN MeetingFileName(Day(t), slugify(fullFrontmatter.title))
                    ELSE IdFileName(id)
        filePath == [dir |-> typeDirs[type], name |-> fileName]
        doc == [frontmatter |-> fullFrontmatter, content |-> content,
                filePath |-> filePath]
    IN Returned(writeFile(st.files, filePath, doc),
                mapSet(st.index, id, fullFrontmatter),
                fullFrontmatter.id)

\* The write of importDocument: file name, file, index entry.
WriteImported(st, type, frontmatter, content) ==
  LET fileName == IF type = "meeting"
                  THEN MeetingFileName(Day(frontmatter.created),
                                       slugify(frontmatter.title))
                  ELSE IdFileName(frontmatter.id)
      filePath == [dir |-> typeDirs[type], name |-> fileName]
      doc == [frontmatter |-> frontmatter, content |-> content,
              filePath |-> filePath]
  IN Returned(writeFile(st.files, filePath, doc),
              mapSet(st.index, frontmatter.id, frontmatter),
              frontmatter.id)

\* importDocument that writes before it looks for the id.
importDocument_WriteThenCheck(st, type, frontmatter, content) ==
  IF ~Registered(type) THEN Thrown(st, "Unknown document type")
  ELSE IF Has(st.files, frontmatter.id)
  THEN Thrown(WriteImported(st, type, frontmatter, content), "already exists")
  ELSE WriteImported(st, type, frontmatter, content)

importDocument(st, type, frontmatter, content) ==
  IF ~Registered(type) THEN Thrown(st, "Unknown document type")
  ELSE IF Has(st.files, frontmatter.id) THEN Thrown(st, "already exists")
  ELSE WriteImported(st, type, frontmatter, content)

\* update that replaces the frontmatter instead of merging into it.
update_Replace(st, id, updates, content, t) ==
  IF ~Has(st.files, id) THEN Thrown(st, "not found")
  ELSE
    LET existing == get(st.files, id)
        updatedFrontmatter == Spread(Cleaned(updates), [updated |-> t])
        doc == [frontmatter |-> updatedFrontmatter,
                content |-> IF content # <<>> THEN content[1]
                            ELSE existing.content,
                filePath |-> existing.filePath]
    IN Returned(writeFile(st.files, existing.filePath, doc),
                mapSet(st.index, id, updatedFrontmatter),
                id)

\* content is <<>> when the argument is omitted, <<text>> otherwise.
update(st, id, updates, content, t) ==
  IF ~Has(st.files, id) THEN Thrown(st, "not found")
  ELSE
    LET existing == get(st.files, id)
        updatedFrontmatter ==
          Spread(Spread(existing.frontmatter, Cleaned(updates)),
                 [updated |-> t])
        doc == [frontmatter |-> updatedFrontmatter,
                content |-> IF content # <<>> THEN content[1]
                            ELSE existing.content,
                filePath |-> existing.filePath]
    IN Returned(writeFile(st.files, existing.filePath, doc),
                mapSet(st.index, id, updatedFrontmatter),
                updatedFrontmatter.id)

(***************************************************************************)
(* Inputs of the calls.                                                    *)
(***************************************************************************)
D001 == MkId("D", <<0, 0, 1>>)

D002 == MkId("D", <<0, 0, 2>>)

M001 == MkId("M", <<0, 0, 1>>)

M002 == MkId("M", <<0, 0, 2>>)

InputTypes == {"decision", "action", "meeting", "bogus"}

InputIds == {D001, D002, M001}

\* Partial<DocumentFrontmatter> arguments: a key is absent, undefined or set.
CreatePartials ==
  { EmptyMap,
    [title |-> <<>>],
    [title |-> <<"Kickoff">>],
    [id |-> <<D001>>] }

\* update(id, updates, content?): content is <<>> when omitted.
UpdateArgs ==
  { [updates |-> EmptyMap, content |-> <<>>],
    [updates |-> [title |-> <<"Retro">>], content |-> <<<<Word("body")>>>>] }

Contents == {<<Word("body")>>}

Incoming(id, type, title, content) ==
  [frontmatter |-> [id |-> id, title |-> title, type |-> type,
                    status |-> "decided", created |-> 0, updated |-> 0],
   content |-> content]

\* An incoming document created at another time.
IncomingAt(id, type, title, content, created) ==
  [Incoming(id, type, title, content) EXCEPT !.frontmatter.created = created]

\* Documents found at an import path (valid per isValidMarvinDocument: an
\* id of the form <LETTERS>-<3+ digits> and a registered type).
IncomingDocs ==
  { Incoming(D001, "decision", "Use REST", <<Word("We chose REST.")>>),
    IncomingAt(D001, "decision", "Kickoff", <<Word("See"), Ref(D001)>>, 1),
    Incoming(D002, "action", "Use REST", <<Word("See"), Ref(D001)>>),
    Incoming(M001, "meeting", "Kickoff", <<Word("Agenda")>>),
    Incoming(M002, "meeting", "kickoff", <<Word("Agenda")>>) }

Times == {t \in now..(now + 1) : t <= MaxClock}

(***************************************************************************)
(* Calls on the store.                                                     *)
(***************************************************************************)
Apply(r, op, type, arg, t) ==
  /\ Cardinality(r.files) <= MaxFiles
  /\ files' = r.files
  /\ index' = r.index
  /\ now' = t
  /\ lastOp' = Call(op, type, arg, r.err, r.id, <<>>)
  /\ UNCHANGED besideStore

Create ==
  \E type \in InputTypes, frontmatter \in CreatePartials,
     content \in Contents, t \in Times :
    /\ Apply(create(Store(files, index), type, frontmatter, content, t),
             "create", type, NoId, t)
    /\ UNCHANGED plan

ImportDocument ==
  \E doc \in IncomingDocs :
    \E type \in {doc.frontmatter.type, "bogus"} :
      /\ Apply(importDocument(Store(files, index), type, doc.frontmatter,
                              doc.content),
               "importDocument", type, doc.frontmatter.id, now)
      /\ UNCHANGED plan

Update ==
  \E id \in InputIds, a \in UpdateArgs, t \in Times :
    /\ Apply(update(Store(files, index), id, a.updates, a.content, t),
             "update", "", id, t)
    /\ UNCHANGED plan

NextId ==
  \E type \in InputTypes :
    /\ lastOp' = IF Registered(type)
                 THEN Call("nextId", type, NoId, "", nextId(files, type), <<>>)
                 ELSE Call("nextId", type, NoId, "Unknown document type", NoId, <<>>)
    /\ UNCHANGED <<files, index, now, plan>>
    /\ UNCHANGED besideStore

(***************************************************************************)
(* Conflict resolver and cross-reference rewriter.                         *)
(***************************************************************************)
Strategies == {"renumber", "skip", "overwrite"}

\* resolveConflicts that keeps a skipped document in the resolved list.
RECURSIVE resolveConflicts_SkipResolves(_, _, _)
resolveConflicts_SkipResolves(incoming, fs, strategy) ==
  IF incoming = <<>>
  THEN [resolved |-> <<>>, skipped |-> <<>>, idMapping |-> EmptyMap]
  ELSE
    LET rest == resolveConflicts_SkipResolves(
                  SubSeq(incoming, 1, Len(incoming) - 1), fs, strategy)
        doc == incoming[Len(incoming)]
        originalId == doc.frontmatter.id
        keep == [frontmatter |-> doc.frontmatter, content |-> doc.content,
                 originalId |-> originalId, newId |-> originalId]
        newId == nextId(fs, doc.frontmatter.type)
    IN IF ~Has(fs, originalId) \/ strategy \in {"overwrite", "skip"}
       THEN [resolved  |-> Append(rest.resolved, keep),
             skipped   |-> IF Has(fs, originalId) /\ strategy = "skip"
                           THEN Append(rest.skipped, originalId)
                           ELSE rest.skipped,
             idMapping |-> mapSet(rest.idMapping, originalId, originalId)]
       ELSE [resolved  |-> Append(rest.resolved,
                                  [frontmatter |-> Spread(doc.frontmatter, [id |-> newId]),
                                   content |-> doc.content,
                                   originalId |-> originalId, newId |-> newId]),
             skipped   |-> rest.skipped,
             idMapping |-> mapSet(rest.idMapping, originalId, newId)]

\* resolveConflicts that renumbers under renumber whether or not the id exists.
RECURSIVE resolveConflicts_AlwaysRenumber(_, _, _)
resolveConflicts_AlwaysRenumber(incoming, fs, strategy) ==
  IF incoming = <<>>
  THEN [resolved |-> <<>>, skipped |-> <<>>, idMapping |-> EmptyMap]
  ELSE
    LET rest == resolveConflicts_AlwaysRenumber(
                  SubSeq(incoming, 1, Len(incoming) - 1), fs, strategy)
        doc == incoming[Len(incoming)]
        originalId == doc.frontmatter.id
        keep == [frontmatter |-> doc.frontmatter, content |-> doc.content,
                 originalId |-> originalId, newId |-> originalId]
        newId == nextId(fs, doc.frontmatter.type)
    IN IF strategy = "overwrite" \/ (~Has(fs, originalId) /\ strategy = "skip")
       THEN [resolved  |-> Append(rest.resolved, keep),
             skipped   |-> rest.skipped,
             idMapping |-> mapSet(rest.idMapping, originalId, originalId)]
       ELSE IF strategy = "skip"
       THEN [rest EXCEPT !.skipped = Append(@, originalId)]
       ELSE [resolved  |-> Append(rest.resolved,
                                  [frontmatter |-> Spread(doc.frontmatter, [id |-> newId]),
                                   content |-> doc.content,
                                   originalId |-> originalId, newId |-> newId]),
             skipped   |-> rest.skipped,
             idMapping |-> mapSet(rest.idMapping, originalId, newId)]

\* resolveConflicts that records in idMapping only the ids it changes.
RECURSIVE resolveConflicts_MapsChangesOnly(_, _, _)
resolveConflicts_MapsChangesOnly(incoming, fs, strategy) ==
  IF incoming = <<>>
  THEN [resolved |-> <<>>, skipped |-> <<>>, idMapping |-> EmptyMap]
  ELSE
    LET rest == resolveConflicts_MapsChangesOnly(
                  SubSeq(incoming, 1, Len(incoming) - 1), fs, strategy)
        doc == incoming[Len(incoming)]
        originalId == doc.frontmatter.id
        keep == [frontmatter |-> doc.frontmatter, content |-> doc.content,
                 originalId |-> originalId, newId |-> originalId]
        newId == nextId(fs, doc.frontmatter.type)
    IN IF ~Has(fs, originalId) \/ strategy = "overwrite"
       THEN [rest EXCEPT !.resolved = Append(@, keep)]
       ELSE IF strategy = "skip"
       THEN [rest EXCEPT !.skipped = Append(@, originalId)]
       ELSE [resolved  |-> Append(rest.resolved,
                                  [frontmatter |-> Spread(doc.frontmatter, [id |-> newId]),
                                   content |-> doc.content,
                                   originalId |-> originalId, newId |-> newId]),
             skipped   |-> rest.skipped,
             idMapping |-> mapSet(rest.idMapping, originalId, newId)]

\* The files of the store once the resolved documents are imported.
RECURSIVE WithResolved(_, _)
WithResolved(fs, resolved) ==
  IF resolved = <<>> THEN fs
  ELSE LET r == resolved[Len(resolved)]
       IN WriteImported(Store(WithResolved(fs, SubSeq(resolved, 1, Len(resolved) - 1)),
                              EmptyMap),
                        r.frontmatter.type, r.frontmatter, r.content).files

\* resolveConflicts that checks a document against the store and the
\* documents of the batch resolved before it.
RECURSIVE resolveConflicts_SeesBatch(_, _, _)
resolveConflicts_SeesBatch(incoming, fs, strategy) ==
  IF incoming = <<>>
  THEN [resolved |-> <<>>, skipped |-> <<>>, idMapping |-> EmptyMap]
  ELSE
    LET rest == resolveConflicts_SeesBatch(SubSeq(incoming, 1, Len(incoming) - 1),
                                           fs, strategy)
        seen == WithResolved(fs, rest.resolved)
        doc == incoming[Len(incoming)]
        originalId == doc.frontmatter.id
        keep == [frontmatter |-> doc.frontmatter, content |-> doc.content,
                 originalId |-> originalId, newId |-> originalId]
        newId == nextId(seen, doc.frontmatter.type)
    IN IF ~Has(seen, originalId) \/ strategy = "overwrite"
       THEN [resolved  |-> Append(rest.resolved, keep),
             skipped   |-> rest.skipped,
             idMapping |-> mapSet(rest.idMapping, originalId, originalId)]
       ELSE IF strategy = "skip"
       THEN [rest EXCEPT !.skipped = Append(@, originalId)]
       ELSE [resolved  |-> Append(rest.resolved,
                                  [frontmatter |-> Spread(doc.frontmatter, [id |-> newId]),
                                   content |-> doc.content,
                                   originalId |-> originalId, newId |-> newId]),
             skipped   |-> rest.skipped,
             idMapping |-> mapSet(rest.idMapping, originalId, newId)]

RECURSIVE resolveConflicts(_, _, _)
resolveConflicts(incoming, fs, strategy) ==
  IF incoming = <<>>
  THEN [resolved |-> <<>>, skipped |-> <<>>, idMapping |-> EmptyMap]
  ELSE
    LET rest == resolveConflicts(SubSeq(incoming, 1, Len(incoming) - 1), fs, strategy)
        doc == incoming[Len(incoming)]
        originalId == doc.frontmatter.id
        keep == [frontmatter |-> doc.frontmatter, content |-> doc.content,
                 originalId |-> originalId, newId |-> originalId]
        newId == nextId(fs, doc.frontmatter.type)
    IN IF ~Has(fs, originalId) \/ strategy = "overwrite"
       THEN [resolved  |-> Append(rest.resolved, keep),
             skipped   |-> rest.skipped,
             idMapping |-> mapSet(rest.idMapping, originalId, originalId)]
       ELSE IF strategy = "skip"
       THEN [rest EXCEPT !.skipped = Append(@, originalId)]
       ELSE [resolved  |-> Append(rest.resolved,
                                  [frontmatter |-> Spread(doc.frontmatter, [id |-> newId]),
                                   content |-> doc.content,
                                   originalId |-> originalId, newId |-> newId]),
             skipped   |-> rest.skipped,
             idMapping |-> mapSet(rest.idMapping, originalId, newId)]

\* [A-Z]+ : the prefixes written in uppercase letters.
UpperPrefixes == {"A", "D", "M", "Q"}

\* ID_REF_PATTERN matches the tokens <uppercase letters>-<3 or more digits>.
MatchesIdRef(tok) ==
  /\ tok[1] = "id"
  /\ tok[2].p \in UpperPrefixes
  /\ Len(tok[2].d) >= 3

\* updateCrossReferences that applies the mapping one key after the other,
\* each over the whole content.
RECURSIVE updateCrossReferences_KeyByKey(_, _)
updateCrossReferences_KeyByKey(content, idMapping) ==
  IF DOMAIN idMapping = {} THEN content
  ELSE LET k == CHOOSE k \in DOMAIN idMapping :
                  \A j \in DOMAIN idMapping : ParseInt(k.d) <= ParseInt(j.d)
           rest == [j \in DOMAIN idMapping \ {k} |-> idMapping[j]]
       IN updateCrossReferences_KeyByKey(
            [i \in DOMAIN content |->
               IF MatchesIdRef(content[i]) /\ content[i][2] = k
               THEN Ref(idMapping[k]) ELSE content[i]],
            rest)

\* content.replace(ID_REF_PATTERN, match => idMapping.get(match) ?? match)
updateCrossReferences(content, idMapping) ==
  IF DOMAIN idMapping = {} THEN content
  ELSE [i \in DOMAIN content |->
          IF MatchesIdRef(content[i]) /\ content[i][2] \in DOMAIN idMapping
          THEN Ref(idMapping[content[i][2]])
          ELSE content[i]]

(***************************************************************************)
(* Import engine: plan, then execute.                                      *)
(***************************************************************************)
planDocImports(docs, fs, options) ==
  LET r == resolveConflicts(docs, fs, options.conflict)
  IN [i \in DOMAIN r.resolved |->
        [action |-> "import",
         documentType |-> r.resolved[i].frontmatter.type,
         originalId |-> r.resolved[i].originalId,
         newId |-> r.resolved[i].newId,
         frontmatter |-> r.resolved[i].frontmatter,
         content |-> updateCrossReferences(r.resolved[i].content, r.idMapping)]]
     \o [i \in DOMAIN r.skipped |->
        [action |-> "skip", originalId |-> r.skipped[i]]]

Wrap(fm) == [k \in DOMAIN fm |-> <<fm[k]>>]

\* The frontmatter an import item is stored with: optional tag, resolved id.
ItemFrontmatter(item, options) ==
  LET tagged == IF options.tag # <<>>
                THEN Spread(item.frontmatter,
                            [tags |-> (IF "tags" \in DOMAIN item.frontmatter
                                       THEN item.frontmatter.tags ELSE <<>>)
                                      \o options.tag])
                ELSE item.frontmatter
  IN Spread(tagged, [id |-> item.newId])

\* One iteration of the loop of executeImportPlan on st =
\* [files, index, err, imported, skipped].
executeItem(st, item, options, t) ==
  IF item.action = "skip" THEN [st EXCEPT !.skipped = @ + 1]
  ELSE
    LET fm == ItemFrontmatter(item, options)
        r == IF Has(st.files, fm.id) /\ options.conflict = "overwrite"
             THEN update(st, fm.id, Wrap(fm), <<item.content>>, t)
             ELSE importDocument(st, fm.type, fm, item.content)
    IN [files |-> r.files, index |-> r.index, err |-> r.err,
        imported |-> IF r.err = "" THEN st.imported + 1 ELSE st.imported,
        skipped |-> st.skipped]

Batches == UNION {[1..n -> IncomingDocs] : n \in 1..MaxBatch}

Tags == {<<>>, <<"imported">>}

\* buildImportPlan for a path holding the documents docs.  The plan keeps,
\* beside its items, the documents it was built from, the files the store
\* held when it was built and where executeImportPlan stands in it: the next
\* item, the tag option it was called with and its counters.
BuildImportPlan ==
  /\ ~plan.built
  /\ \E docs \in Batches, conflict \in Strategies :
       /\ plan' = [built |-> TRUE, conflict |-> conflict, incoming |-> docs,
                   before |-> files,
                   items |-> planDocImports(docs, files, [conflict |-> conflict]),
                   pos |-> 1, tag |-> <<>>, imported |-> 0, skipped |-> 0]
       /\ lastOp' = Call("buildImportPlan", "", NoId, "", NoId, <<>>)
       /\ UNCHANGED <<files, index, now>>
       /\ UNCHANGED besideStore

\* executeImportPlan on the plan just built, with the conflict strategy it
\* was built with: one iteration of its loop per step.  The first iteration
\* fixes options.tag; the call returns after the last item, or ends with the
\* first error a store call throws.
ExecuteImportPlan ==
  /\ plan.built
  /\ \E t \in Times, tag \in (IF plan.pos = 1 THEN Tags ELSE {plan.tag}) :
       LET options == [conflict |-> plan.conflict, tag |-> tag]
           r == executeItem([files |-> files, index |-> index, err |-> "",
                             imported |-> plan.imported, skipped |-> plan.skipped],
                            plan.items[plan.pos], options, t)
       IN /\ Cardinality(r.files) <= MaxFiles
          /\ files' = r.files
          /\ index' = r.index
          /\ now' = t
          /\ UNCHANGED besideStore
          /\ IF r.err # "" \/ plan.pos = Len(plan.items)
             THEN /\ lastOp' = Call("executeImportPlan", "", NoId, r.err, NoId,
                                     IF r.err = ""
                                     THEN <<r.imported, r.skipped, 0>>
                                     ELSE <<>>)
                  /\ plan' = NoPlan
             ELSE /\ lastOp' = lastOp
                  /\ plan' = [plan EXCEPT !.pos = @ + 1, !.tag = tag,
                                          !.imported = r.imported,
                                          !.skipped = r.skipped]

StoreNext == Create \/ ImportDocument \/ Update \/ NextId

SpecStore == Init /\ [][StoreNext]_vars

ImportNext == BuildImportPlan \/ ExecuteImportPlan

SpecImport == Init /\ [][ImportNext]_vars

Next == StoreNext \/ BuildImportPlan \/ ExecuteImportPlan

Spec == Init /\ [][Next]_vars

(***************************************************************************)
(* The resolver applied to a batch and a store.                            *)
(***************************************************************************)
\* Incoming documents: those of IncomingDocs and an action that claims the
\* id of a decision.
ResolveDocs ==
  IncomingDocs \cup {Incoming(D001, "action", "Retro", <<Ref(D001)>>)}

\* The files of a store after importDocument of each document of docs in
\* turn (a rejected import leaves them as they are).
RECURSIVE StoreAfter(_)
StoreAfter(docs) ==
  IF docs = <<>> THEN {}
  ELSE LET before == StoreAfter(SubSeq(docs, 1, Len(docs) - 1))
           doc == docs[Len(docs)]
       IN importDocument(Store(before, EmptyMap), doc.frontmatter.type,
                         doc.frontmatter, doc.content).files

ResolveStores ==
  {StoreAfter(docs) : docs \in UNION {[1..n -> ResolveDocs] : n \in 0..MaxFiles}}

ResolveBatches == UNION {[1..n -> ResolveDocs] : n \in 1..MaxBatch}

InitResolve ==
  /\ InitStore
  /\ sources = NoSources
  /\ manager = NoManager
  /\ mOp = NoCall
  /\ pure \in {[fn |-> "resolveConflicts", incoming |-> b, fs |-> fs,
                 strategy |-> st, out |-> <<>>] :
                  b \in ResolveBatches, fs \in ResolveStores, st \in Strategies}

ResolveConflicts ==
  /\ pure.fn = "resolveConflicts"
  /\ pure.out = <<>>
  /\ pure' = [pure EXCEPT !.out = <<resolveConflicts(pure.incoming, pure.fs,
                                                     pure.strategy)>>]
  /\ UNCHANGED <<files, index, now, lastOp, plan, sources, manager, mOp>>

SpecResolve == InitResolve /\ [][ResolveConflicts]_vars

(***************************************************************************)
(* Source manifest: the intake directory, the persisted manifest and the   *)
(* SourceManifestManager.                                                  *)
(*   sources  = [exists, files: name -> content, manifestFile]             *)
(*              manifestFile is <<>> (no file) or <<text>>                 *)
(*   manager  = [constructed, manifest: [version, files: name -> entry]]   *)
(*   mOp      = the last call on the manager, its error and its result     *)
(***************************************************************************)
MANIFEST_VERSION == 1

SOURCE_EXTENSIONS == {".pdf", ".md", ".txt"}

emptyManifest == [version |-> MANIFEST_VERSION, files |-> EmptyMap]

\* path.extname(f).toLowerCase() of the file names of the model.
ExtLower(f) ==
  CASE f = "a.md"      -> ".md"
    [] f = "B.TXT"     -> ".txt"
    [] f = "B-1.TXT"   -> ".txt"
    [] f = "ghost.md"  -> ".md"
    [] f = "image.png" -> ".png"
    [] OTHER           -> ""

\* crypto.createHash("sha256").update(content).digest("hex")
hashFile(content) == <<"sha256", content>>

\* YAML.stringify and YAML.parse of a manifest: scalars are written as
\* typed nodes, null as the null node.
YamlStr(x) == <<"str", x>>

YamlNullable(x) == IF x = <<>> THEN <<"null">> ELSE <<"str", x[1]>>

FromYamlNullable(n) == IF n[1] = "null" THEN <<>> ELSE <<n[2]>>

YamlEntry(e) ==
  [hash |-> YamlStr(e.hash), addedAt |-> YamlStr(e.addedAt),
   processedAt |-> YamlNullable(e.processedAt), status |-> YamlStr(e.status),
   artifacts |-> <<"seq", e.artifacts>>, error |-> YamlNullable(e.error)]

FromYamlEntry(n) ==
  [hash |-> n.hash[2], addedAt |-> n.addedAt[2],
   processedAt |-> FromYamlNullable(n.processedAt), status |-> n.status[2],
   artifacts |-> n.artifacts[2], error |-> FromYamlNullable(n.error)]

YamlStringify(m) ==
  [kind |-> "yaml",
   doc |-> [version |-> <<"int", m.version>>,
            files |-> [f \in DOMAIN m.files |-> YamlEntry(m.files[f])]]]

\* Texts a manifest file can hold beside a stringified manifest: an empty
\* document (parses to null) and text that is not YAML (parse throws).
EmptyText == [kind |-> "empty"]

GarbageText == [kind |-> "garbage"]

\* YAML.parse: [err, value]; value is <<>> for null.
YamlParse(raw) ==
  CASE raw.kind = "yaml" ->
         [err |-> "",
          value |-> <<[version |-> raw.doc.version[2],
                       files |-> [f \in DOMAIN raw.doc.files |->
                                    FromYamlEntry(raw.doc.files[f])]]>>]
    [] raw.kind = "empty" -> [err |-> "", value |-> <<>>]
    [] OTHER -> [err |-> "YAMLParseError", value |-> <<>>]

\* SourceManifestManager.load: [err, manifest].
load(src) ==
  IF ~src.exists \/ src.manifestFile = <<>>
  THEN [err |-> "", manifest |-> emptyManifest]
  ELSE LET parsed == YamlParse(src.manifestFile[1])
       IN IF parsed.err # "" THEN [err |-> parsed.err, manifest |-> emptyManifest]
          ELSE IF parsed.value = <<>> THEN [err |-> "", manifest |-> emptyManifest]
          ELSE [err |-> "", manifest |-> parsed.value[1]]

\* SourceManifestManager.save: mkdir -p of the intake directory, then the
\* manifest file is written whole.
save(src, m) ==
  [exists |-> TRUE, files |-> src.files, manifestFile |-> <<YamlStringify(m)>>]

\* this.manifest.files[fileName] on the plain object files: an own entry
\* <<"own", entry>>, a property inherited from Object.prototype
\* <<"inherited">> (truthy, no entry), or undefined <<>>.
ObjectPrototypeKeys == {"constructor"}

LookupEntry(m, fileName) ==
  IF fileName \in DOMAIN m.files THEN <<"own", m.files[fileName]>>
  ELSE IF fileName \in ObjectPrototypeKeys THEN <<"inherited">>
  ELSE <<>>

\* A manifest entry for a file first seen at time t.
NewEntry(hash, t) ==
  [hash |-> hash, addedAt |-> t, processedAt |-> <<>>, status |-> "pending",
   artifacts |-> <<>>, error |-> <<>>]

\* The entry of a file whose hash changed, reset in hash and status only.
ResetEntry_StatusOnly(existing, hash) ==
  [existing EXCEPT !.hash = hash, !.status = "pending"]

\* The entry of a file whose hash changed.
ResetEntry(existing, hash) ==
  [existing EXCEPT !.hash = hash, !.status = "pending", !.processedAt = <<>>,
                   !.artifacts = <<>>, !.error = <<>>]

NoChanges == [added |-> {}, changed |-> {}, removed |-> {}]

\* scan that also resets the entries that are no longer pending.
scan_ResetsProcessed(src, m, t) ==
  IF ~src.exists THEN [sources |-> src, manifest |-> m, result |-> NoChanges]
  ELSE
    LET onDisk == {f \in DOMAIN src.files : ExtLower(f) \in SOURCE_EXTENSIONS}
        added == onDisk \ DOMAIN m.files
        changed == {f \in onDisk \cap DOMAIN m.files :
                      \/ m.files[f].hash # hashFile(src.files[f])
                      \/ m.files[f].status # "pending"}
        removed == DOMAIN m.files \ onDisk
        after == [version |-> m.version,
                  files |-> [f \in onDisk |->
                               IF f \in added
                               THEN NewEntry(hashFile(src.files[f]), t)
                               ELSE IF f \in changed
                               THEN ResetEntry(m.files[f], hashFile(src.files[f]))
                               ELSE m.files[f]]]
    IN [sources |-> save(src, after), manifest |-> after,
        result |-> [added |-> added, changed |-> changed, removed |-> removed]]

\* SourceManifestManager.scan at time t: the intake directory and the
\* manifest after it, and the three lists it returns.
scan(src, m, t) ==
  IF ~src.exists THEN [sources |-> src, manifest |-> m, result |-> NoChanges]
  ELSE
    LET onDisk == {f \in DOMAIN src.files : ExtLower(f) \in SOURCE_EXTENSIONS}
        added == onDisk \ DOMAIN m.files
        changed == {f \in onDisk \cap DOMAIN m.files :
                      m.files[f].hash # hashFile(src.files[f])}
        removed == DOMAIN m.files \ onDisk
        after == [version |-> m.version,
                  files |-> [f \in onDisk |->
                               IF f \in added
                               THEN NewEntry(hashFile(src.files[f]), t)
                               ELSE IF f \in changed
                               THEN ResetEntry(m.files[f], hashFile(src.files[f]))
                               ELSE m.files[f]]]
    IN [sources |-> save(src, after), manifest |-> after,
        result |-> [added |-> added, changed |-> changed, removed |-> removed]]

\* markProcessing, markCompleted and markError: the entry is looked up, a
\* missing one throws; the fields are set on what the lookup returned (on
\* the entry when it is an own one), then the manifest is saved.
NotInManifest(src, m) ==
  [err |-> "not in manifest", sources |-> src, manifest |-> m]

Marked(src, m, fileName, entry) ==
  LET after == IF entry[1] = "own"
               THEN [m EXCEPT !.files[fileName] = entry[2]]
               ELSE m
  IN [err |-> "", sources |-> save(src, after), manifest |-> after]

SetFields(entry, fields) ==
  IF entry[1] = "own" THEN <<"own", Spread(entry[2], fields)>> ELSE entry

markProcessing(src, m, fileName) ==
  LET entry == LookupEntry(m, fileName)
  IN IF entry = <<>> THEN NotInManifest(src, m)
     ELSE Marked(src, m, fileName,
                 SetFields(entry, [status |-> "processing"]))

markCompleted(src, m, fileName, artifacts, t) ==
  LET entry == LookupEntry(m, fileName)
  IN IF entry = <<>> THEN NotInManifest(src, m)
     ELSE Marked(src, m, fileName,
                 SetFields(entry, [status |-> "completed", processedAt |-> <<t>>,
                                   artifacts |-> artifacts, error |-> <<>>]))

markError(src, m, fileName, error) ==
  LET entry == LookupEntry(m, fileName)
  IN IF entry = <<>> THEN NotInManifest(src, m)
     ELSE Marked(src, m, fileName,
                 SetFields(entry, [status |-> "error", error |-> <<error>>]))

(***************************************************************************)
(* Calls on the manifest manager, and what happens to the intake           *)
(* directory from outside.                                                 *)
(***************************************************************************)
SourceNames == {"a.md", "B.TXT", "image.png"}

SourceContents == {1, 2}

MarkNames == {"a.md", "ghost.md", "constructor"}

ManagerCall(op, name, err, result) ==
  [op |-> op, name |-> name, err |-> err, result |-> result]

External == ManagerCall("external", "", "", NoChanges)

\* A file is written into the intake directory (made if missing).
WriteSource ==
  \E f \in SourceNames, c \in SourceContents :
    /\ ~(f \in DOMAIN sources.files /\ sources.files[f] = c)
    /\ f = "image.png" => c = 1
    /\ sources' = [sources EXCEPT !.exists = TRUE, !.files = mapSet(@, f, c)]
    /\ mOp' = External
    /\ UNCHANGED <<manager, now>>
    /\ UNCHANGED besideManifest

DeleteSource ==
  \E f \in DOMAIN sources.files :
    /\ sources' = [sources EXCEPT
                     !.files = [g \in DOMAIN sources.files \ {f} |-> sources.files[g]]]
    /\ mOp' = External
    /\ UNCHANGED <<manager, now>>
    /\ UNCHANGED besideManifest

\* The intake directory is removed with all it holds.
RemoveSourcesDir ==
  /\ sources.exists
  /\ sources' = NoSources
  /\ mOp' = External
  /\ UNCHANGED <<manager, now>>
  /\ UNCHANGED besideManifest

\* The manifest file is damaged: truncated to nothing, or no longer YAML.
DamageManifest ==
  \E text \in {EmptyText, GarbageText} :
    /\ sources.exists
    /\ sources.manifestFile # <<text>>
    /\ sources' = [sources EXCEPT !.manifestFile = <<text>>]
    /\ mOp' = External
    /\ UNCHANGED <<manager, now>>
    /\ UNCHANGED besideManifest

\* new SourceManifestManager(marvinDir): a constructor that throws leaves
\* the caller without a manager.
Construct ==
  LET l == load(sources)
  IN /\ manager' = IF l.err = ""
                   THEN [constructed |-> TRUE, manifest |-> l.manifest]
                   ELSE NoManager
     /\ mOp' = ManagerCall("construct", "", l.err, NoChanges)
     /\ UNCHANGED <<sources, now>>
     /\ UNCHANGED besideManifest

ManagerApply(r, op, name, t) ==
  /\ sources' = r.sources
  /\ manager' = [constructed |-> TRUE, manifest |-> r.manifest]
  /\ now' = t
  /\ UNCHANGED besideManifest

Scan ==
  /\ manager.constructed
  /\ \E t \in Times :
       LET r == scan(sources, manager.manifest, t)
       IN /\ ManagerApply(r, "scan", "", t)
          /\ mOp' = ManagerCall("scan", "", "", r.result)

MarkProcessing ==
  /\ manager.constructed
  /\ \E f \in MarkNames :
       LET r == markProcessing(sources, manager.manifest, f)
       IN /\ ManagerApply(r, "markProcessing", f, now)
          /\ mOp' = ManagerCall("markProcessing", f, r.err, NoChanges)

MarkCompleted ==
  /\ manager.constructed
  /\ \E f \in MarkNames, t \in Times :
       LET r == markCompleted(sources, manager.manifest, f, <<"D-001">>, t)
       IN /\ ManagerApply(r, "markCompleted", f, t)
          /\ mOp' = ManagerCall("markCompleted", f, r.err, NoChanges)

MarkError ==
  /\ manager.constructed
  /\ \E f \in MarkNames :
       LET r == markError(sources, manager.manifest, f, "Failed to process")
       IN /\ ManagerApply(r, "markError", f, now)
          /\ mOp' = ManagerCall("markError", f, r.err, NoChanges)

ManifestNext ==
  \/ WriteSource \/ DeleteSource \/ RemoveSourcesDir \/ DamageManifest
  \/ Construct \/ Scan \/ MarkProcessing \/ MarkCompleted \/ MarkError

SpecManifest == Init /\ [][ManifestNext]_vars

(***************************************************************************)
(* The rewriter applied to a content and a mapping.                        *)
(***************************************************************************)
MaxTokens == 3

D003 == MkId("D", <<0, 0, 3>>)

\* "D-01" has two digits, "d-001" a lowercase prefix: neither is id-shaped.
D01 == MkId("D", <<0, 1>>)

d001 == MkId("d", <<0, 0, 1>>)

RewriteTokens ==
  {Word("See"), NL, Ref(D001), Ref(D002), Ref(D01), Ref(d001)}

RewriteContents == UNION {[1..n -> RewriteTokens] : n \in 0..MaxTokens}

\* Map<string, string>: any keys, here mapped to D-002 or D-003.
RewriteMappings ==
  UNION {[K -> {D002, D003}] : K \in SUBSET {D001, D002, D01, d001}}

InitRewrite ==
  /\ InitStore
  /\ sources = NoSources
  /\ manager = NoManager
  /\ mOp = NoCall
  /\ pure \in {[fn |-> "updateCrossReferences", content |-> c,
                 idMapping |-> m, out |-> <<>>] :
                  c \in RewriteContents, m \in RewriteMappings}

\* out is <<result>> once the function was applied.
UpdateCrossReferences ==
  /\ pure.fn = "updateCrossReferences"
  /\ pure.out = <<>>
  /\ pure' = [pure EXCEPT !.out = <<updateCrossReferences(pure.content,
                                                          pure.idMapping)>>]
  /\ UNCHANGED <<files, index, now, lastOp, plan, sources, manager, mOp>>

SpecRewrite == InitRewrite /\ [][UpdateCrossReferences]_vars

(***************************************************************************)
(* Planning an import: classifyPath, buildImportPlan, formatPlanSummary.   *)
(* An input path is what the file system holds there: whether it is a      *)
(* directory, its base name, whether it has a known document               *)
(* subdirectory, the valid documents of its .md files and its other files. *)
(* The world is what a call could write to: the store's files and index    *)
(* and the intake directory with its manifest.                             *)
(***************************************************************************)
World(fs, idx, src) == [files |-> fs, index |-> idx, sources |-> src]

RAW_SOURCE_EXTENSIONS == {".pdf", ".txt"}

CORE_DIR_NAMES == {"decisions", "actions", "questions"}

\* ID_PATTERN = /^[A-Z]+-\d{3,}$/
ID_PATTERN(id) == id.p \in UpperPrefixes /\ Len(id.d) >= 3

\* frontmatter is the data gray-matter read: a field it lacks is undefined.
isValidMarvinDocument(frontmatter, knownTypes) ==
  /\ "id" \in DOMAIN frontmatter
  /\ "type" \in DOMAIN frontmatter
  /\ ID_PATTERN(frontmatter.id)
  /\ \E i \in DOMAIN knownTypes : knownTypes[i] = frontmatter.type

\* try { matter(readFileSync(f)) ... isValidMarvinDocument } catch { false }
ReadsAsDocument(file, knownTypes) ==
  file.parses /\ isValidMarvinDocument(file.data, knownTypes)

classifyFile(path, knownTypes) ==
  IF ExtLower(path.name) \in RAW_SOURCE_EXTENSIONS THEN "raw-source-file"
  ELSE IF ExtLower(path.name) = ".md"
  THEN IF ReadsAsDocument(path.md[1], knownTypes) THEN "marvin-document"
       ELSE "raw-source-file"
  ELSE "raw-source-file"

\* The directory rules of classifyPath, the document rules before the
\* project rule.
classifyPath_DocsFirst(w, path, knownTypes, knownDirNames) ==
  [world |-> w,
   out |-> IF ~path.isDirectory THEN classifyFile(path, knownTypes)
           ELSE IF path.subdirs \cap (CORE_DIR_NAMES \cup knownDirNames) # {}
           THEN "docs-directory"
           ELSE IF \E i \in DOMAIN path.md : ReadsAsDocument(path.md[i], knownTypes)
           THEN "docs-directory"
           ELSE IF path.name = ".marvin" \/ path.hasConfig THEN "marvin-project"
           ELSE "raw-source-dir"]

\* statSync, existsSync, readdirSync and readFileSync only.
classifyPath(w, path, knownTypes, knownDirNames) ==
  [world |-> w,
   out |-> IF ~path.isDirectory THEN classifyFile(path, knownTypes)
           ELSE IF path.name = ".marvin" \/ path.hasConfig THEN "marvin-project"
           ELSE IF path.subdirs \cap (CORE_DIR_NAMES \cup knownDirNames) # {}
           THEN "docs-directory"
           ELSE IF \E i \in DOMAIN path.md : ReadsAsDocument(path.md[i], knownTypes)
           THEN "docs-directory"
           ELSE "raw-source-dir"]

\* The i-th markdown file of a directory.
MdName(i) == "doc" \o ToString(i) \o ".md"

MdNames == {MdName(i) : i \in 1..(MaxBatch + 1)}

\* path.extname(fileName) and path.basename(fileName, ext).
ExtName(f) ==
  CASE f \in {"B.TXT", "B-1.TXT"} -> ".TXT"
    [] f = "a.md" \/ f \in MdNames -> ".md"
    [] f = "image.png"            -> ".png"
    [] OTHER                      -> ""

BaseName(f) ==
  CASE f = "B.TXT"     -> "B"
    [] f = "B-1.TXT"   -> "B-1"
    [] f = "a.md"      -> "a"
    [] f = "image.png" -> "image"
    [] f \in MdNames   -> "doc" \o ToString(CHOOSE i \in 1..(MaxBatch + 1) : f = MdName(i))
    [] OTHER           -> f

\* The do-while loop of resolveSourceFileName from counter on.
RECURSIVE FirstFree(_, _, _)
FirstFree(src, fileName, counter) ==
  LET candidate == BaseName(fileName) \o "-" \o ToString(counter)
                   \o ExtName(fileName)
  IN IF src.exists /\ candidate \in DOMAIN src.files
     THEN FirstFree(src, fileName, counter + 1)
     ELSE candidate

\* The name a copied file gets in the intake directory: its own, or, when
\* that one is taken, the first free <base>-<counter><ext>.
resolveSourceFileName(src, fileName) ==
  IF ~(src.exists /\ fileName \in DOMAIN src.files) THEN fileName
  ELSE FirstFree(src, fileName, 1)

\* readdirSync of a directory holding the files names: in byte order.
ByteOrder ==
  <<"B-1.TXT", "B.TXT", "a.md">> \o [i \in 1..(MaxBatch + 1) |-> MdName(i)]
  \o <<"image.png">>

SortedNames(names) == SelectSeq(ByteOrder, LAMBDA f : f \in names)

CopyItems(src, names) ==
  LET order == SortedNames(names)
  IN [i \in DOMAIN order |->
        [action |-> "copy", sourcePath |-> order[i],
         targetPath |-> resolveSourceFileName(src, order[i])]]

\* collectMarvinDocs over the markdown files mds.
collectMarvinDocs(mds, knownTypes) ==
  LET valid == SelectSeq(mds, LAMBDA f : ReadsAsDocument(f, knownTypes))
  IN [i \in DOMAIN valid |->
        [frontmatter |-> valid[i].data, content |-> valid[i].content]]

\* Every file of the directory, markdown or not.
FileNames(path) == path.raw \cup {MdName(i) : i \in DOMAIN path.md}

\* getDirNameForType for every registered type.
knownDirNames == {typeDirs[registeredTypes[i]] : i \in DOMAIN registeredTypes}

\* planFromMarvinProject reads the markdown files below docs/,
\* planFromDocsDirectory those of the directory and of its subdirectories,
\* planFromSingleDocument the file itself.
PlanItems(w, path, classification, options) ==
  CASE classification = "marvin-project"
         -> planDocImports(collectMarvinDocs(path.nested, registeredTypes),
                           w.files, options)
    [] classification = "docs-directory"
         -> planDocImports(collectMarvinDocs(path.md \o path.nested,
                                             registeredTypes),
                           w.files, options)
    [] classification = "marvin-document"
         -> planDocImports(collectMarvinDocs(path.md, registeredTypes),
                           w.files, options)
    [] classification = "raw-source-dir" -> CopyItems(w.sources, FileNames(path))
    [] OTHER -> CopyItems(w.sources, {path.name})

\* buildImportPlan that makes the intake directory for the files it plans
\* to copy.
buildImportPlan_MakesTargetDir(w, path, options) ==
  LET c == classifyPath(w, path, registeredTypes, knownDirNames)
      items == PlanItems(c.world, path, c.out, options)
  IN [world |-> IF \E i \in DOMAIN items : items[i].action = "copy"
                THEN [c.world EXCEPT !.sources.exists = TRUE]
                ELSE c.world,
      out |-> [classification |-> c.out, items |-> items]]

\* The store is asked for registeredTypes, get and nextId; the file system
\* for existsSync, statSync, readdirSync and readFileSync.
buildImportPlan(w, path, options) ==
  LET c == classifyPath(w, path, registeredTypes, knownDirNames)
  IN [world |-> c.world,
      out |-> [classification |-> c.out,
               items |-> PlanItems(c.world, path, c.out, options)]]

Select(items, action) == SelectSeq(items, LAMBDA i : i.action = action)

\* The lines of the summary: the classification, then per kind of item a
\* count and one line per item, or "Nothing to import.".
formatPlanSummary(p) ==
  LET imports == Select(p.items, "import")
      copies == Select(p.items, "copy")
      skips == Select(p.items, "skip")
  IN <<<<"Detected", p.classification>>>>
     \o (IF imports # <<>>
         THEN <<<<"Documents to import", Len(imports)>>>>
              \o [i \in DOMAIN imports |->
                    <<"import", imports[i].originalId, imports[i].newId>>]
         ELSE <<>>)
     \o (IF copies # <<>>
         THEN <<<<"Files to copy to sources/", Len(copies)>>>>
              \o [i \in DOMAIN copies |->
                    <<"copy", copies[i].sourcePath, copies[i].targetPath>>]
         ELSE <<>>)
     \o (IF skips # <<>>
         THEN <<<<"Skipped (conflict)", Len(skips)>>>>
              \o [i \in DOMAIN skips |-> <<"skip", skips[i].originalId>>]
         ELSE <<>>)
     \o (IF p.items = <<>> THEN <<<<"Nothing to import.">>>> ELSE <<>>)

\* The store after importDocument of each document of docs in turn.
RECURSIVE StoreWith(_)
StoreWith(docs) ==
  IF docs = <<>> THEN Store({}, EmptyMap)
  ELSE LET before == StoreWith(SubSeq(docs, 1, Len(docs) - 1))
           doc == docs[Len(docs)]
           r == importDocument(before, doc.frontmatter.type, doc.frontmatter,
                               doc.content)
       IN Store(r.files, r.index)

PlanStores ==
  {StoreWith(docs) : docs \in UNION {[1..n -> ResolveDocs] : n \in 0..MaxFiles}}

\* The intake directory: missing, or holding B.TXT, or B.TXT and B-1.TXT,
\* and the manifest a scan wrote.
PlanSources ==
  {NoSources}
  \cup {scan([exists |-> TRUE, files |-> [f \in names |-> 1],
              manifestFile |-> <<>>], emptyManifest, 0).sources :
          names \in {{"B.TXT"}, {"B.TXT", "B-1.TXT"}}}

\* A markdown file as gray-matter reads it, or one it cannot read.
MdFile(doc) == [parses |-> TRUE, data |-> doc.frontmatter, content |-> doc.content]

Unparsable == [parses |-> FALSE]

Without(doc, key) ==
  [doc EXCEPT !.frontmatter = [k \in DOMAIN doc.frontmatter \ {key} |->
                                 doc.frontmatter[k]]]

\* Markdown files that are no documents: unreadable, without frontmatter,
\* without id, without type, with a malformed id, of an unknown type.
OtherMdFiles ==
  LET doc == Incoming(D001, "decision", "Use REST", <<Word("We chose REST.")>>)
  IN {Unparsable,
      [parses |-> TRUE, data |-> EmptyMap, content |-> <<Word("readme")>>],
      MdFile(Without(doc, "id")),
      MdFile(Without(doc, "type")),
      MdFile([doc EXCEPT !.frontmatter.id = D01]),
      MdFile([doc EXCEPT !.frontmatter.id = d001]),
      MdFile([doc EXCEPT !.frontmatter.type = "note"])}

MdBatches ==
  {<<>>}
  \cup {[i \in DOMAIN b |-> MdFile(b[i])] : b \in ResolveBatches}
  \cup {<<f>> : f \in OtherMdFiles}
  \cup {<<f, MdFile(Incoming(D002, "action", "Use REST", <<Ref(D001)>>))>> :
          f \in OtherMdFiles}

Path(isDirectory, name, hasConfig, subdirs, md, nested, raw) ==
  [isDirectory |-> isDirectory, name |-> name, hasConfig |-> hasConfig,
   subdirs |-> subdirs, md |-> md, nested |-> nested, raw |-> raw]

\* Directories: a project (by name or by config.yaml), one with document
\* subdirectories, one with markdown files, one with other files; files: a
\* markdown file, a text file with the frontmatter of a document, an image.
PlanPaths ==
  {Path(TRUE, name, cfg, subdirs, md, <<>>, {}) :
     name \in {".marvin", "export"}, cfg \in BOOLEAN,
     subdirs \in {{}, {"decisions"}, {"notes"}}, md \in MdBatches}
  \cup {Path(TRUE, name, FALSE, {"docs", "decisions"}, <<>>, md, {}) :
          name \in {".marvin", "export"}, md \in MdBatches}
  \cup {Path(TRUE, "inbox", FALSE, {}, md, <<>>, raw) :
          md \in {<<>>, <<Unparsable>>},
          raw \in SUBSET {"B.TXT", "B-1.TXT", "image.png"}}
  \cup {Path(FALSE, name, FALSE, {}, <<f>>, <<>>, {}) :
          name \in {"a.md", "B.TXT", "image.png"},
          f \in OtherMdFiles \cup {MdFile(d) : d \in ResolveDocs}}

InitPlan ==
  /\ \E st \in PlanStores : files = st.files /\ index = st.index
  /\ now = 0
  /\ lastOp = Call("none", "", NoId, "", NoId, <<>>)
  /\ plan = NoPlan
  /\ sources \in PlanSources
  /\ manager = NoManager
  /\ mOp = NoCall
  /\ pure \in {[fn |-> "plan", path |-> path, conflict |-> c, stage |-> "start",
                 out |-> <<>>] : path \in PlanPaths, c \in Strategies}

\* What a planning call leaves behind, and what it returned.
Planned(r, stage) ==
  /\ files' = r.world.files
  /\ index' = r.world.index
  /\ sources' = r.world.sources
  /\ pure' = [pure EXCEPT !.stage = stage, !.out = <<r.out>>]
  /\ UNCHANGED <<now, lastOp, plan, manager, mOp>>

ClassifyPath ==
  /\ pure.fn = "plan"
  /\ pure.stage = "start"
  /\ Planned(classifyPath(World(files, index, sources), pure.path, registeredTypes,
                          knownDirNames), "classified")

\* marvin import --dry-run: the plan is built, then displayed.
BuildPlan ==
  /\ pure.fn = "plan"
  /\ pure.stage = "classified"
  /\ Planned(buildImportPlan(World(files, index, sources), pure.path,
                             [conflict |-> pure.conflict]), "built")

FormatPlanSummary ==
  /\ pure.fn = "plan"
  /\ pure.stage = "built"
  /\ pure' = [pure EXCEPT !.stage = "displayed",
                          !.out = <<formatPlanSummary(pure.out[1])>>]
  /\ UNCHANGED <<files, index, now, lastOp, plan, sources, manager, mOp>>

PlanNext == ClassifyPath \/ BuildPlan \/ FormatPlanSummary

SpecPlan == InitPlan /\ [][PlanNext]_vars

(***************************************************************************)
(* ingestFile: a manager of its own is loaded from the manifest on disk,   *)
(* the entry is marked processing, the agent analyses the file and may     *)
(* call the create tools it is allowed, and the entry is marked completed  *)
(* with createdArtifacts, or error when the analysis throws.               *)
(***************************************************************************)
\* store.create as the agent's tools reach it: wrapped when not in draft
\* mode, so that the source and its tag are added and the id is tracked.
ingestCreate(st, draft, fileName, type, title, createdArtifacts, t) ==
  LET sourceTag == "source:" \o fileName
      frontmatter == IF draft THEN [title |-> <<title>>]
                     ELSE [title |-> <<title>>, source |-> <<fileName>>,
                           tags |-> <<<<sourceTag>>>>]
      r == create(st, type, frontmatter, <<Word("body")>>, t)
  IN [files |-> r.files, index |-> r.index, id |-> r.id,
      createdArtifacts |-> IF draft THEN createdArtifacts
                           ELSE Append(createdArtifacts, r.id)]

\* The manifest a scan of the two tracked files wrote, a.md pending and
\* B.TXT as an earlier ingestion left it.
IngestSources ==
  LET src == [exists |-> TRUE, files |-> [f \in {"a.md", "B.TXT"} |-> 1],
              manifestFile |-> <<>>]
      scanned == scan(src, emptyManifest, 0)
  IN {scanned.sources,
      markCompleted(scanned.sources, scanned.manifest, "B.TXT", <<D001>>, 0).sources,
      markError(scanned.sources, scanned.manifest, "B.TXT", "Failed to process").sources}

AgentTypes == {"decision", "action", "question"}

AgentTitles == {"Kickoff", "Use REST"}

AgentErrors == {"Failed to process", "aborted"}

InitIngest ==
  /\ InitStore
  /\ sources \in IngestSources
  /\ manager = NoManager
  /\ mOp = NoCall
  /\ pure \in {[fn |-> "ingest", fileName |-> f, draft |-> d, stage |-> "called",
                 createdArtifacts |-> <<>>, made |-> <<>>, error |-> ""] :
                  f \in {"a.md", "B.TXT"}, d \in BOOLEAN}

\* new SourceManifestManager(marvinDir) ... manifest.markProcessing(fileName)
IngestStart ==
  /\ pure.fn = "ingest"
  /\ pure.stage = "called"
  /\ LET r == markProcessing(sources, load(sources).manifest, pure.fileName)
     IN /\ sources' = r.sources
        /\ manager' = [constructed |-> TRUE, manifest |-> r.manifest]
        /\ mOp' = ManagerCall("markProcessing", pure.fileName, r.err, NoChanges)
        /\ pure' = [pure EXCEPT !.stage = "analyzing"]
        /\ UNCHANGED <<files, index, now, lastOp, plan>>

\* The agent calls create_decision, create_action or create_question.
AgentCreates ==
  /\ pure.fn = "ingest"
  /\ pure.stage = "analyzing"
  /\ Cardinality(files) < MaxFiles
  /\ \E type \in AgentTypes, title \in AgentTitles, t \in Times :
       LET r == ingestCreate(Store(files, index), pure.draft, pure.fileName,
                             type, title, pure.createdArtifacts, t)
       IN /\ files' = r.files
          /\ index' = r.index
          /\ now' = t
          /\ lastOp' = Call("create", type, NoId, "", r.id, <<>>)
          /\ pure' = [pure EXCEPT !.createdArtifacts = r.createdArtifacts,
                                  !.made = Append(@, r.id)]
          /\ UNCHANGED <<plan, sources, manager, mOp>>

\* The conversation ends: manifest.markCompleted(fileName, createdArtifacts).
IngestReturns ==
  /\ pure.fn = "ingest"
  /\ pure.stage = "analyzing"
  /\ \E t \in Times :
       LET r == markCompleted(sources, manager.manifest, pure.fileName,
                              pure.createdArtifacts, t)
       IN /\ sources' = r.sources
          /\ manager' = [constructed |-> TRUE, manifest |-> r.manifest]
          /\ mOp' = ManagerCall("markCompleted", pure.fileName, r.err, NoChanges)
          /\ now' = t
          /\ pure' = [pure EXCEPT !.stage = "returned"]
          /\ UNCHANGED <<files, index, lastOp, plan>>

\* The conversation throws: manifest.markError(fileName, errorMsg); throw.
IngestThrows ==
  /\ pure.fn = "ingest"
  /\ pure.stage = "analyzing"
  /\ \E msg \in AgentErrors :
       LET r == markError(sources, manager.manifest, pure.fileName, msg)
       IN /\ sources' = r.sources
          /\ manager' = [constructed |-> TRUE, manifest |-> r.manifest]
          /\ mOp' = ManagerCall("markError", pure.fileName, r.err, NoChanges)
          /\ pure' = [pure EXCEPT !.stage = "thrown", !.error = msg]
          /\ UNCHANGED <<files, index, now, lastOp, plan>>

IngestNext == IngestStart \/ AgentCreates \/ IngestReturns \/ IngestThrows

SpecIngest == InitIngest /\ [][IngestNext]_vars

(***************************************************************************)
(* An ingestion in flight on a manager that also scans: the entry is       *)
(* marked processing, the file is read, and before the entry is marked     *)
(* completed or error the file may be written again and the manager may    *)
(* scan.  pure keeps the file, the content that was ingested and whether   *)
(* a scan reset the entry in between.                                      *)
(***************************************************************************)
\* unprocessed(): the files whose entry is pending or error.
unprocessed(m) == {f \in DOMAIN m.files : m.files[f].status \in {"pending", "error"}}

InFlightNames == {"a.md", "B.TXT"}

InitInFlight ==
  /\ InitStore
  /\ \E c \in [InFlightNames -> SourceContents] :
       LET r == scan([exists |-> TRUE, files |-> c, manifestFile |-> <<>>],
                     emptyManifest, 0)
       IN /\ sources = r.sources
          /\ manager = [constructed |-> TRUE, manifest |-> r.manifest]
  /\ mOp = NoCall
  /\ pure \in {[fn |-> "inFlight", fileName |-> f, stage |-> "idle",
                 ingested |-> 0, reset |-> FALSE] : f \in InFlightNames}

InFlightApply(r) ==
  /\ sources' = r.sources
  /\ manager' = [constructed |-> TRUE, manifest |-> r.manifest]
  /\ UNCHANGED <<files, index, lastOp, plan>>

\* markProcessing, then the file is read for the analysis.
InFlightStart ==
  /\ pure.fn = "inFlight"
  /\ pure.stage = "idle"
  /\ pure.fileName \in unprocessed(manager.manifest)
  /\ InFlightApply(markProcessing(sources, manager.manifest, pure.fileName))
  /\ mOp' = ManagerCall("markProcessing", pure.fileName, "", NoChanges)
  /\ pure' = [pure EXCEPT !.stage = "processing",
                          !.ingested = sources.files[pure.fileName],
                          !.reset = FALSE]
  /\ UNCHANGED now

\* Somebody writes a source file.
InFlightWrite ==
  /\ pure.fn = "inFlight"
  /\ \E f \in InFlightNames, c \in SourceContents :
       /\ sources.files[f] # c
       /\ sources' = [sources EXCEPT !.files[f] = c]
  /\ mOp' = External
  /\ UNCHANGED <<files, index, now, lastOp, plan, manager, pure>>

InFlightScan ==
  /\ pure.fn = "inFlight"
  /\ \E t \in Times :
       LET r == scan(sources, manager.manifest, t)
       IN /\ InFlightApply(r)
          /\ mOp' = ManagerCall("scan", "", "", r.result)
          /\ now' = t
          /\ pure' = [pure EXCEPT !.reset = @ \/ (/\ pure.stage = "processing"
                                                  /\ pure.fileName \in r.result.changed)]

InFlightCompleted ==
  /\ pure.fn = "inFlight"
  /\ pure.stage = "processing"
  /\ \E t \in Times :
       /\ InFlightApply(markCompleted(sources, manager.manifest, pure.fileName,
                                      <<D001>>, t))
       /\ now' = t
  /\ mOp' = ManagerCall("markCompleted", pure.fileName, "", NoChanges)
  /\ pure' = [pure EXCEPT !.stage = "idle"]

InFlightError ==
  /\ pure.fn = "inFlight"
  /\ pure.stage = "processing"
  /\ InFlightApply(markError(sources, manager.manifest, pure.fileName,
                             "Failed to process"))
  /\ mOp' = ManagerCall("markError", pure.fileName, "", NoChanges)
  /\ pure' = [pure EXCEPT !.stage = "idle"]
  /\ UNCHANGED now

InFlightNext ==
  \/ InFlightStart \/ InFlightWrite \/ InFlightScan
  \/ InFlightCompleted \/ InFlightError

SpecInFlight == InitInFlight /\ [][InFlightNext]_vars

(***************************************************************************)
(* A plan executed on a store that was written to after the plan was      *)
(* built: one plan is built on a store some imports made, one create       *)
(* reaches the store before the plan is executed.                          *)
(***************************************************************************)
InitSnapshot ==
  /\ \E st \in PlanStores :
       /\ Cardinality(st.files) < MaxFiles
       /\ files = st.files
       /\ index = st.index
  /\ now = 0
  /\ lastOp = Call("init", "", NoId, "", NoId, <<>>)
  /\ plan = NoPlan
  /\ sources = NoSources
  /\ manager = NoManager
  /\ mOp = NoCall
  /\ pure = NoPure

BuildSnapshot == lastOp.op = "init" /\ BuildImportPlan

\* A create of another process between buildImportPlan and
\* executeImportPlan.
\* It goes through the other process's store: the index of this one is
\* not told.  pure keeps the files it wrote.
CreateBetween ==
  /\ plan.built
  /\ lastOp.op = "buildImportPlan"
  /\ \E type \in InputTypes, frontmatter \in CreatePartials,
        content \in Contents, t \in Times :
       LET r == create(Store(files, index), type, frontmatter, content, t)
       IN /\ r.err = ""
          /\ Cardinality(r.files) <= MaxFiles
          /\ files' = r.files
          /\ now' = t
          /\ lastOp' = Call("create", type, NoId, r.err, r.id, <<>>)
          /\ pure' = [fn |-> "between", written |-> r.files \ files]
          /\ UNCHANGED <<index, plan, sources, manager, mOp>>

SnapshotNext == BuildSnapshot \/ CreateBetween \/ ExecuteImportPlan

SpecSnapshot == InitSnapshot /\ [][SnapshotNext]_vars

(***************************************************************************)
(* The AEM phase tools: advance_phase on the phase kept in config.yaml.    *)
(* The config is its aem.currentPhase, <<>> when it has none; the store is *)
(* the statuses of its use cases and of its tech assessments.              *)
(***************************************************************************)
PHASES == <<"assess-use-case", "assess-technology", "define-solution">>

\* PHASES.indexOf(phase), counted from 0; -1 when it is no phase.
IndexOf(phase) ==
  IF \E i \in DOMAIN PHASES : PHASES[i] = phase
  THEN (CHOOSE i \in DOMAIN PHASES : PHASES[i] = phase) - 1
  ELSE -1

\* PHASES[idx], undefined (<<>>) outside the array.
PhaseAt(idx) == IF idx + 1 \in DOMAIN PHASES THEN <<PHASES[idx + 1]>> ELSE <<>>

Drafts(statuses) == Len(SelectSeq(statuses, LAMBDA st : st = "draft"))

GateWarning(statuses, none, drafts) ==
  IF statuses = <<>> THEN <<<<none>>>>
  ELSE IF Drafts(statuses) > 0 THEN <<<<drafts, Drafts(statuses)>>>>
  ELSE <<>>

\* The soft gate checks.
GateWarnings(currentPhase, targetPhase, useCases, techAssessments) ==
  (IF currentPhase = "assess-use-case"
   THEN GateWarning(useCases, "No use cases defined yet.",
                    "use case(s) still in draft status.")
   ELSE <<>>)
  \o (IF \/ currentPhase = "assess-technology"
         \/ (currentPhase = "assess-use-case" /\ targetPhase = "define-solution")
      THEN GateWarning(techAssessments, "No tech assessments defined yet.",
                       "tech assessment(s) still in draft status.")
      ELSE <<>>)

PhaseResult(config, isError, text, warnings) ==
  [config |-> config, isError |-> isError, text |-> text, warnings |-> warnings]

\* advance_phase whose gate checks block.
advance_phase_GateBlocks(config, args, useCases, techAssessments) ==
  IF config = <<>>
  THEN PhaseResult(config, TRUE, "Cannot determine current phase.", <<>>)
  ELSE
    LET currentPhase == config[1]
        currentIdx == IndexOf(currentPhase)
        targetPhase == IF args # <<>> THEN args ELSE PhaseAt(currentIdx + 1)
    IN IF targetPhase = <<>>
       THEN PhaseResult(config, FALSE, "Already at the final phase", <<>>)
       ELSE IF IndexOf(targetPhase[1]) <= currentIdx
       THEN PhaseResult(config, TRUE, "Cannot move backward", <<>>)
       ELSE LET warnings == GateWarnings(currentPhase, targetPhase[1],
                                         useCases, techAssessments)
            IN IF warnings # <<>>
               THEN PhaseResult(config, TRUE, "advanced", warnings)
               ELSE PhaseResult(targetPhase, FALSE, "advanced", warnings)

\* advance_phase({targetPhase}): args is <<>> when targetPhase is omitted.
advance_phase(config, args, useCases, techAssessments) ==
  IF config = <<>>
  THEN PhaseResult(config, TRUE, "Cannot determine current phase.", <<>>)
  ELSE
    LET currentPhase == config[1]
        currentIdx == IndexOf(currentPhase)
        targetPhase == IF args # <<>> THEN args ELSE PhaseAt(currentIdx + 1)
    IN IF targetPhase = <<>>
       THEN PhaseResult(config, FALSE, "Already at the final phase", <<>>)
       ELSE IF IndexOf(targetPhase[1]) <= currentIdx
       THEN PhaseResult(config, TRUE, "Cannot move backward", <<>>)
       ELSE PhaseResult(targetPhase, FALSE, "advanced",
                        GateWarnings(currentPhase, targetPhase[1],
                                     useCases, techAssessments))

GateStatuses == {<<>>, <<"draft">>, <<"assessed">>, <<"draft", "assessed">>}

PhaseArgs == {<<>>} \cup {<<PHASES[i]>> : i \in DOMAIN PHASES}

\* marvin init writes aem.currentPhase = assess-use-case for the AEM
\* methodology and no aem section otherwise.
InitAem ==
  /\ InitStore
  /\ sources = NoSources
  /\ manager = NoManager
  /\ mOp = NoCall
  /\ pure \in {[fn |-> "aem", config |-> c, useCases |-> u, techAssessments |-> ta,
                 args |-> <<>>, previous |-> c, result |-> <<>>] :
                  c \in {<<>>, <<"assess-use-case">>},
                  u \in GateStatuses, ta \in GateStatuses}

AdvancePhase ==
  /\ pure.fn = "aem"
  /\ \E args \in PhaseArgs :
       LET r == advance_phase(pure.config, args, pure.useCases,
                              pure.techAssessments)
       IN pure' = [pure EXCEPT !.config = r.config, !.args = args,
                               !.previous = pure.config, !.result = <<r>>]
  /\ UNCHANGED <<files, index, now, lastOp, plan, sources, manager, mOp>>

\* A use case or a tech assessment is created as a draft, or assessed.
ChangeArtifacts ==
  /\ pure.fn = "aem"
  /\ \E u \in GateStatuses, ta \in GateStatuses :
       /\ (u = pure.useCases) # (ta = pure.techAssessments)
       /\ pure' = [pure EXCEPT !.useCases = u, !.techAssessments = ta]
  /\ UNCHANGED <<files, index, now, lastOp, plan, sources, manager, mOp>>

AemNext == AdvancePhase \/ ChangeArtifacts

SpecAem == InitAem /\ [][AemNext]_vars

(***************************************************************************)
(* The codec applied to a document: serialize, then parse.                 *)
(***************************************************************************)
CodecTitles == {"Kickoff", "123", "true", "null", ""}

CodecTags == {<<>>, <<"imported">>, <<"123", "imported">>}

CodecContents ==
  UNION {[1..n -> {NL, Word("body"), Ref(D001)}] : n \in 0..MaxTokens}

CodecDocs ==
  {[frontmatter |-> [id |-> D001, title |-> title, type |-> "decision",
                     status |-> "open", created |-> 0, updated |-> t,
                     tags |-> tags],
    content |-> c, filePath |-> [dir |-> "decisions", name |-> IdFileName(D001)]] :
     title \in CodecTitles, tags \in CodecTags, c \in CodecContents,
     t \in 0..MaxClock}

InitCodec ==
  /\ InitStore
  /\ sources = NoSources
  /\ manager = NoManager
  /\ mOp = NoCall
  /\ pure \in {[fn |-> "codec", doc |-> d, raw |-> <<>>, out |-> <<>>] :
                 d \in CodecDocs}

SerializeDocument ==
  /\ pure.fn = "codec"
  /\ pure.raw = <<>>
  /\ pure' = [pure EXCEPT !.raw = <<serializeDocument(pure.doc)>>]
  /\ UNCHANGED <<files, index, now, lastOp, plan, sources, manager, mOp>>

ParseDocument ==
  /\ pure.fn = "codec"
  /\ pure.raw # <<>>
  /\ pure.out = <<>>
  /\ pure' = [pure EXCEPT !.out = <<parseDocument(pure.raw[1], pure.doc.filePath)>>]
  /\ UNCHANGED <<files, index, now, lastOp, plan, sources, manager, mOp>>

CodecNext == SerializeDocument \/ ParseDocument

SpecCodec == InitCodec /\ [][CodecNext]_vars

(***************************************************************************)
(* Properties of the document store (SpecStore).                           *)
(***************************************************************************)
IdOf(f) == ReadFile(f).frontmatter.id

\* The successor of an id: same prefix, numeric suffix one higher.
Succ(id) == MkId(id.p, PadStart(ToDigits(ParseInt(id.d) + 1), 3))

\* The ids of the documents on disk that carry a prefix.
IdsWithPrefix(fs, prefix) == {IdOf(f) : f \in {g \in fs : IdOf(g).p = prefix}}

\* C1: no two documents of the store carry the same id, whatever sequence of
\* successful create and importDocument calls (of any registered type, with
\* any frontmatter) produced them.
C1_UniqueIds == \A f, g \in files : IdOf(f) = IdOf(g) => f = g

\* C5: two nextId(type) calls in a row return the same id, and after a
\* successful create(type, ...) nextId(type) is the successor of the id the
\* create assigned.
C5_MonotonicAllocation ==
  [][ /\ ( /\ lastOp.op = "nextId" /\ lastOp'.op = "nextId"
           /\ lastOp.type = lastOp'.type )
         => lastOp'.id = lastOp.id
      /\ ( lastOp'.op = "create" /\ lastOp'.err = "" )
         => nextId(files', lastOp'.type) = Succ(lastOp'.id) ]_vars

\* C6: nextId(type) is the prefix followed by the largest numeric suffix
\* among the documents on disk with that prefix, plus one, padded to three
\* digits, and it is never the id of a document that exists.
C6_NextIdIsFresh ==
  \A type \in DOMAIN idPrefixes :
    /\ nextId(files, type) =
         MkId(idPrefixes[type],
              PadStart(ToDigits(Max({ParseInt(id.d) :
                                       id \in IdsWithPrefix(files, idPrefixes[type])}
                                    \cup {0}) + 1), 3))
    /\ ~Has(files, nextId(files, type))

C18_IndexMatchesDisk ==
  \A id \in DOMAIN index :
    /\ Has(files, id)
    /\ index[id] = get(files, id).frontmatter

(***************************************************************************)
(* Properties of the import engine (SpecImport).                           *)
(***************************************************************************)
\* A step that builds a plan; a step that is one iteration of
\* executeImportPlan, the item it handles and the tag options it may run with.
BuildStep == ~plan.built /\ plan'.built

ExecStep == plan.built /\ plan' # plan

CurItem == plan.items[plan.pos]

StepTags ==
  IF plan'.built THEN {plan'.tag}
  ELSE IF plan.pos = 1 THEN Tags ELSE {plan.tag}

\* The counters of executeImportPlan after a step.
ImportedAfter == IF plan'.built THEN plan'.imported ELSE lastOp'.result[1]

SkippedAfter == IF plan'.built THEN plan'.skipped ELSE lastOp'.result[2]

TitleOf(fs, id) == get(fs, id).frontmatter.title

\* The store holds D-001.md, a decision with id D-001, and nothing else.
OnlyD001(fs) ==
  /\ Cardinality(fs) = 1
  /\ \A f \in fs : /\ f.dir = "decisions"
                   /\ f.name = IdFileName(D001)
                   /\ IdOf(f) = D001

\* A single incoming decision that claims D-001.
SingleD001(docs) ==
  /\ Len(docs) = 1
  /\ docs[1].frontmatter.id = D001
  /\ docs[1].frontmatter.type = "decision"

\* C2: executing a plan built with the skip or the renumber strategy never
\* modifies, replaces or deletes a document that was in the store before.
C2_MergesAreNonDestructive ==
  [][ (ExecStep /\ plan.conflict \in {"skip", "renumber"})
        => plan.before \subseteq files' ]_vars

\* C3: from an empty store, importing a decision D-001 under renumber plans
\* one import item with originalId = newId = D-001 and stores its title;
\* importing a second decision that claims D-001 under renumber plans newId
\* D-002 and leaves D-001 (original title) and D-002 (new title); under skip
\* it plans a single skip item and the store holds no D-002.
C3_EndToEnd ==
  [][ /\ ( /\ BuildStep /\ files = {} /\ SingleD001(plan'.incoming)
           /\ plan'.conflict = "renumber" )
         => /\ Len(plan'.items) = 1
            /\ plan'.items[1].action = "import"
            /\ plan'.items[1].originalId = D001
            /\ plan'.items[1].newId = D001
      /\ ( /\ ExecStep /\ files = {} /\ SingleD001(plan.incoming)
           /\ plan.conflict = "renumber" )
         => /\ Has(files', D001)
            /\ TitleOf(files', D001) = plan.incoming[1].frontmatter.title
      /\ ( /\ BuildStep /\ OnlyD001(files) /\ SingleD001(plan'.incoming)
           /\ plan'.conflict = "renumber" )
         => /\ Len(plan'.items) = 1
            /\ plan'.items[1].action = "import"
            /\ plan'.items[1].newId = D002
      /\ ( /\ ExecStep /\ OnlyD001(files) /\ SingleD001(plan.incoming)
           /\ plan.conflict = "renumber" )
         => /\ Has(files', D001)
            /\ TitleOf(files', D001) = TitleOf(files, D001)
            /\ Has(files', D002)
            /\ TitleOf(files', D002) = plan.incoming[1].frontmatter.title
      /\ ( /\ BuildStep /\ OnlyD001(files) /\ SingleD001(plan'.incoming)
           /\ plan'.conflict = "skip" )
         => /\ Len(plan'.items) = 1
            /\ plan'.items[1].action = "skip"
      /\ ( /\ ExecStep /\ OnlyD001(files) /\ SingleD001(plan.incoming)
           /\ plan.conflict = "skip" )
         => ~Has(files', D002) ]_vars

\* C3 witness: D-001 and D-002 are both stored, with different titles, after
\* an import that imported one document.
C3_Witness ==
  /\ lastOp.op = "executeImportPlan"
  /\ lastOp.result = <<1, 0, 0>>
  /\ Cardinality(files) = 2
  /\ Has(files, D001) /\ Has(files, D002)
  /\ get(files, D002).frontmatter.type = "decision"
  /\ TitleOf(files, D001) # TitleOf(files, D002)

\* C4: under renumber, an incoming document whose id exists is resolved with
\* store.nextId(type), which is the id of no document in the store; its
\* frontmatter id is that id and idMapping maps the original id to it.
C4_RenumberAllocatesFreshId ==
  [][ (BuildStep /\ plan'.conflict = "renumber")
        => \E r \in {resolveConflicts(plan'.incoming, files, "renumber")} :
             \A i \in DOMAIN r.resolved :
                Has(files, r.resolved[i].originalId)
                  => /\ r.resolved[i].newId
                          = nextId(files, r.resolved[i].frontmatter.type)
                     /\ ~Has(files, r.resolved[i].newId)
                     /\ r.resolved[i].frontmatter.id = r.resolved[i].newId
                     /\ r.idMapping[r.resolved[i].originalId]
                          = r.resolved[i].newId ]_vars

\* The frontmatter fields of fm other than the updated timestamp.
SansUpdated(fm) == [k \in DOMAIN fm \ {"updated"} |-> fm[k]]

\* An iteration of executeImportPlan on an import item whose id the store
\* holds, under the overwrite strategy.
OverwriteStep ==
  /\ ExecStep
  /\ plan.conflict = "overwrite"
  /\ CurItem.action = "import"
  /\ Has(files, CurItem.newId)

\* Under overwrite every incoming document whose id exists is planned as an
\* import item that keeps its id, and none is skipped.
OverwriteKeepsId ==
  (BuildStep /\ plan'.conflict = "overwrite")
    => /\ \A i \in DOMAIN plan'.incoming :
            Has(files, plan'.incoming[i].frontmatter.id)
              => \E j \in DOMAIN plan'.items :
                   /\ plan'.items[j].action = "import"
                   /\ plan'.items[j].originalId = plan'.incoming[i].frontmatter.id
                   /\ plan'.items[j].newId = plan'.incoming[i].frontmatter.id
                   /\ plan'.items[j].frontmatter.title
                        = plan'.incoming[i].frontmatter.title
       /\ \A j \in DOMAIN plan'.items : plan'.items[j].action = "import"

\* C8 as stated: under overwrite the document keeps its id and, once
\* executed, the stored document has the incoming content and the incoming
\* frontmatter (the updated timestamp aside) in place of the previous ones,
\* and no additional document exists.
C8_OverwriteReplaces ==
  [][ /\ OverwriteKeepsId
      /\ OverwriteStep
           => \E tag \in StepTags :
                /\ Has(files', CurItem.newId)
                /\ get(files', CurItem.newId).content = CurItem.content
                /\ SansUpdated(get(files', CurItem.newId).frontmatter)
                     = SansUpdated(ItemFrontmatter(CurItem, [tag |-> tag]))
                /\ Cardinality(files') = Cardinality(files) ]_vars

\* C8 amended: under overwrite the document keeps its id and, once executed,
\* the stored document has the incoming content and the previous frontmatter
\* overlaid with the incoming fields (fields the incoming document lacks are
\* kept, updated is the time of the import), and no additional document
\* exists.
C8_OverwriteMerges ==
  [][ /\ OverwriteKeepsId
      /\ OverwriteStep
           => \E tag \in StepTags :
                /\ Has(files', CurItem.newId)
                /\ get(files', CurItem.newId).content = CurItem.content
                /\ get(files', CurItem.newId).frontmatter
                     = Spread(Spread(get(files, CurItem.newId).frontmatter,
                                     ItemFrontmatter(CurItem, [tag |-> tag])),
                              [updated |-> now'])
                /\ Cardinality(files') = Cardinality(files) ]_vars

\* C8 witness: an overwrite is about to replace a stored document that has a
\* field (tags) and a title the incoming document does not have.
C8_Witness ==
  /\ plan.built
  /\ plan.conflict = "overwrite"
  /\ CurItem.action = "import"
  /\ Has(files, CurItem.newId)
  /\ "tags" \in DOMAIN get(files, CurItem.newId).frontmatter
  /\ "tags" \notin DOMAIN CurItem.frontmatter
  /\ TitleOf(files, CurItem.newId) # CurItem.frontmatter.title
  /\ get(files, CurItem.newId).content # CurItem.content

\* C9: under skip, an incoming document whose id exists is left out of the
\* resolved list and recorded in the skipped list, the plan carries it as a
\* skip item, and executing that item only counts it as skipped: files and
\* index stay as they are.
C9_SkipDropsConflicts ==
  [][ /\ (BuildStep /\ plan'.conflict = "skip")
           => \E r \in {resolveConflicts(plan'.incoming, files, "skip")} :
                \A i \in DOMAIN plan'.incoming :
                   LET id == plan'.incoming[i].frontmatter.id
                   IN Has(files, id)
                        => /\ \A j \in DOMAIN r.resolved :
                                r.resolved[j].originalId # id
                           /\ \E j \in DOMAIN r.skipped : r.skipped[j] = id
                           /\ \E j \in DOMAIN plan'.items :
                                /\ plan'.items[j].action = "skip"
                                /\ plan'.items[j].originalId = id
                           /\ \A j \in DOMAIN plan'.items :
                                plan'.items[j].originalId = id
                                  => plan'.items[j].action = "skip"
      /\ (ExecStep /\ CurItem.action = "skip")
           => /\ files' = files
              /\ index' = index
              /\ SkippedAfter = plan.skipped + 1
              /\ ImportedAfter = plan.imported ]_vars

\* C9 witness: an import that skipped its only document has returned and the
\* store still holds the document it collided with.
C9_Witness ==
  /\ lastOp.op = "executeImportPlan"
  /\ lastOp.result = <<0, 1, 0>>
  /\ Has(files, D001)

\* C10: under every strategy, an incoming document whose id the store does
\* not hold is resolved with newId = originalId and the frontmatter and
\* content it came with, is not listed as skipped and is mapped to itself in
\* idMapping.
C10_NonConflictingPassThrough ==
  [][ BuildStep
        => \E r \in {resolveConflicts(plan'.incoming, files, plan'.conflict)} :
             \A i \in DOMAIN plan'.incoming :
                LET doc == plan'.incoming[i]
                    id == doc.frontmatter.id
                IN ~Has(files, id)
                     => /\ \E j \in DOMAIN r.resolved :
                             /\ r.resolved[j].originalId = id
                             /\ r.resolved[j].newId = id
                             /\ r.resolved[j].frontmatter = doc.frontmatter
                             /\ r.resolved[j].content = doc.content
                        /\ \A j \in DOMAIN r.skipped : r.skipped[j] # id
                        /\ id \in DOMAIN r.idMapping
                        /\ r.idMapping[id] = id ]_vars

\* C10 witness: a plan was just built, for a store that holds documents, from
\* a batch with a document whose id the store does not hold.
C10_Witness ==
  /\ plan.built
  /\ plan.pos = 1
  /\ plan.before = files
  /\ files # {}
  /\ \E i \in DOMAIN plan.incoming :
       /\ ~Has(files, plan.incoming[i].frontmatter.id)
       /\ \E j \in DOMAIN plan.items :
            /\ plan.items[j].action = "import"
            /\ plan.items[j].newId = plan.incoming[i].frontmatter.id

\* C17: a mutation of a stored document through the store (the update
\* that executeImportPlan issues for an overwrite import) leaves its created
\* timestamp as it was and sets updated to the time of the mutation.
C17_CreatedSetOnce ==
  [][ OverwriteStep
        => /\ Has(files', CurItem.newId)
           /\ get(files', CurItem.newId).frontmatter.created
                = get(files, CurItem.newId).frontmatter.created
           /\ get(files', CurItem.newId).frontmatter.updated = now' ]_vars

(***************************************************************************)
(* Properties of the resolver (SpecResolve).                               *)
(***************************************************************************)
Resolved == pure.fn = "resolveConflicts" /\ pure.out # <<>>

\* The newId of the last resolved document with the original id.
LastNewId(resolved, id) ==
  LET last == CHOOSE j \in DOMAIN resolved :
                /\ resolved[j].originalId = id
                /\ \A k \in DOMAIN resolved :
                     resolved[k].originalId = id => k <= j
  IN resolved[last].newId

\* C11 as stated: under every strategy the original id of every incoming
\* document is a key of idMapping, mapped to the id the document was
\* resolved with (itself when unchanged, the new id when renumbered).
C11_MappingCoversBatch ==
  Resolved =>
    LET r == pure.out[1]
    IN /\ \A i \in DOMAIN pure.incoming :
            pure.incoming[i].frontmatter.id \in DOMAIN r.idMapping
       /\ \A j \in DOMAIN r.resolved :
            r.idMapping[r.resolved[j].originalId] = r.resolved[j].newId

\* C11 amended: idMapping has exactly the original ids of the resolved (not
\* skipped) documents as keys, each mapped to the id the last incoming
\* document with that original id was resolved with: itself when unchanged,
\* the new id when renumbered.  The id of a skipped document is not a key.
C11_MappingCoversResolved ==
  Resolved =>
    LET r == pure.out[1]
    IN /\ DOMAIN r.idMapping
            = {r.resolved[j].originalId : j \in DOMAIN r.resolved}
       /\ \A id \in DOMAIN r.idMapping :
            r.idMapping[id] = LastNewId(r.resolved, id)
       /\ \A j \in DOMAIN r.resolved :
            /\ r.resolved[j].newId = r.resolved[j].frontmatter.id
            /\ Has(pure.fs, r.resolved[j].originalId) /\ pure.strategy = "renumber"
                 => r.resolved[j].newId
                      = nextId(pure.fs, r.resolved[j].frontmatter.type)
            /\ ~(Has(pure.fs, r.resolved[j].originalId) /\ pure.strategy = "renumber")
                 => r.resolved[j].newId = r.resolved[j].originalId
       /\ \A j \in DOMAIN r.skipped : r.skipped[j] \notin DOMAIN r.idMapping
       /\ \A i \in DOMAIN pure.incoming :
            LET id == pure.incoming[i].frontmatter.id
            IN \/ id \in DOMAIN r.idMapping
               \/ \E j \in DOMAIN r.skipped : r.skipped[j] = id

\* C11 witness: a batch was resolved under renumber with one document
\* keeping its id and one renumbered.
C11_Witness ==
  /\ Resolved
  /\ pure.strategy = "renumber"
  /\ \E j, k \in DOMAIN pure.out[1].resolved :
       /\ pure.out[1].resolved[j].newId = pure.out[1].resolved[j].originalId
       /\ pure.out[1].resolved[k].newId # pure.out[1].resolved[k].originalId
       /\ pure.out[1].idMapping[pure.out[1].resolved[k].originalId]
            = pure.out[1].resolved[k].newId

(***************************************************************************)
(* Properties of the rewriter (SpecRewrite).                               *)
(***************************************************************************)
Rewritten == pure.fn = "updateCrossReferences" /\ pure.out # <<>>

\* C12: updateCrossReferences replaces every id-shaped token that is a key
\* of idMapping by its mapped id, in one simultaneous pass (a written id is
\* not replaced again), and leaves every other token verbatim; an empty
\* mapping or a content without id-shaped tokens gives the content back.
C12_RewriteOnce ==
  Rewritten =>
    LET out == pure.out[1]
        c == pure.content
        m == pure.idMapping
    IN /\ Len(out) = Len(c)
       /\ \A i \in DOMAIN c :
            IF /\ c[i][1] = "id" /\ c[i][2].p \in {"A", "D", "M", "Q"}
               /\ Len(c[i][2].d) >= 3 /\ c[i][2] \in DOMAIN m
            THEN out[i] = <<"id", m[c[i][2]]>>
            ELSE out[i] = c[i]
       /\ DOMAIN m = {} => out = c
       /\ (\A i \in DOMAIN c : c[i][1] # "id") => out = c
       /\ ( /\ c = <<Ref(D001), Ref(D002)>>
            /\ DOMAIN m = {D001, D002} /\ m[D001] = D002 /\ m[D002] = D003 )
            => out = <<Ref(D002), Ref(D003)>>

\* C12 witness: 'D-001 D-002' was rewritten under {D-001 -> D-002,
\* D-002 -> D-003}.
C12_Witness ==
  /\ Rewritten
  /\ pure.content = <<Ref(D001), Ref(D002)>>
  /\ DOMAIN pure.idMapping = {D001, D002}
  /\ pure.idMapping[D001] = D002
  /\ pure.idMapping[D002] = D003
  /\ pure.out[1] = <<Ref(D002), Ref(D003)>>

(***************************************************************************)
(* Properties of the source manifest (SpecManifest).                       *)
(***************************************************************************)
\* The recognized reference files of the intake directory.
Recognized(src) == {f \in DOMAIN src.files : f \in {"a.md", "B.TXT"}}

ScanStep == mOp'.op = "scan"

\* C13: scan gives a file without entry a new pending entry and returns it
\* in added; resets the entry of a file whose hash differs (pending, no
\* artifacts, no error, processedAt null) and returns it in changed; deletes
\* the entry of a file that is gone and returns it in removed; leaves every
\* other entry untouched; afterwards the manifest's names are exactly the
\* recognized files on disk.
C13_ScanReconciles ==
  [][ ScanStep =>
        LET before == manager.manifest.files
            after == manager'.manifest.files
            disk == Recognized(sources)
            res == mOp'.result
        IN /\ \A f \in disk \ DOMAIN before :
                /\ f \in res.added
                /\ f \in DOMAIN after
                /\ after[f].status = "pending"
                /\ after[f].hash = <<"sha256", sources.files[f]>>
           /\ \A f \in disk \cap DOMAIN before :
                IF before[f].hash # <<"sha256", sources.files[f]>>
                THEN /\ f \in res.changed
                     /\ f \in DOMAIN after
                     /\ after[f].status = "pending"
                     /\ after[f].artifacts = <<>>
                     /\ after[f].error = <<>>
                     /\ after[f].processedAt = <<>>
                     /\ after[f].hash = <<"sha256", sources.files[f]>>
                ELSE /\ f \in DOMAIN after
                     /\ after[f] = before[f]
           /\ \A f \in DOMAIN before \ disk :
                /\ f \in res.removed
                /\ f \notin DOMAIN after
           /\ res.added = disk \ DOMAIN before
           /\ res.removed = DOMAIN before \ disk
           /\ DOMAIN after = disk ]_vars

\* The manifest reflects the directory: its names are the recognized files
\* and every entry has the hash of its file.
ManifestReflects(src, m) ==
  /\ DOMAIN m.files = Recognized(src)
  /\ \A f \in DOMAIN m.files : m.files[f].hash = <<"sha256", src.files[f]>>

\* C14: a scan of a directory the manifest reflects returns empty added,
\* changed and removed and leaves every entry as it is, whatever the
\* statuses of the entries; so two scans in a row leave the second empty.
C14_ScanIdempotent ==
  [][ /\ (ScanStep /\ ManifestReflects(sources, manager.manifest))
           => /\ mOp'.result = [added |-> {}, changed |-> {}, removed |-> {}]
              /\ manager'.manifest = manager.manifest
      /\ (ScanStep /\ mOp.op = "scan")
           => /\ mOp'.result = [added |-> {}, changed |-> {}, removed |-> {}]
              /\ manager'.manifest = manager.manifest ]_vars

\* C14 witness: a scan has returned three empty lists for a directory with a
\* completed and a pending file.
C14_Witness ==
  /\ mOp.op = "scan"
  /\ mOp.result = [added |-> {}, changed |-> {}, removed |-> {}]
  /\ manager.constructed
  /\ DOMAIN manager.manifest.files = {"a.md", "B.TXT"}
  /\ manager.manifest.files["a.md"].status = "completed"
  /\ manager.manifest.files["B.TXT"].status = "pending"

\* C15: constructing a manager over a manifest file that is corrupt does
\* not fail and gives a manager with an empty manifest.
C15_CorruptManifestIsEmpty ==
  ( /\ mOp.op = "construct"
    /\ sources.manifestFile # <<>>
    /\ sources.manifestFile[1].kind # "yaml" )
    => /\ mOp.err = ""
       /\ manager.constructed
       /\ manager.manifest.files = EmptyMap

\* C16: markProcessing, markCompleted and markError on a file name without
\* entry fail with an error and leave the manifest in memory and the
\* persisted manifest file as they are.
C16_MarkUnknownFails ==
  [][ ( /\ mOp'.op \in {"markProcessing", "markCompleted", "markError"}
        /\ mOp'.name \notin DOMAIN manager.manifest.files )
        => /\ mOp'.err # ""
           /\ manager' = manager
           /\ sources' = sources ]_vars

(***************************************************************************)
(* Properties of the codec (SpecCodec).                                    *)
(***************************************************************************)
\* The content without the whitespace at its ends.
RECURSIVE Trimmed(_)
Trimmed(c) ==
  IF c = <<>> THEN c
  ELSE IF c[1] = <<"nl">> THEN Trimmed(Tail(c))
  ELSE IF c[Len(c)] = <<"nl">> THEN Trimmed(SubSeq(c, 1, Len(c) - 1))
  ELSE c

\* C19: parseDocument(serializeDocument(D)) has the frontmatter fields of D
\* and the content of D with the surrounding whitespace trimmed, also when
\* the content is empty.
C19_CodecRoundTrip ==
  (pure.fn = "codec" /\ pure.out # <<>>)
    => /\ pure.out[1].frontmatter = pure.doc.frontmatter
       /\ pure.out[1].content = Trimmed(pure.doc.content)
       /\ pure.doc.content = <<>> => pure.out[1].content = <<>>

\* C19 witness: a document whose title and tag read as a number and whose
\* content has whitespace at both ends went through the codec.
C19_Witness ==
  /\ pure.fn = "codec"
  /\ pure.out # <<>>
  /\ pure.doc.frontmatter.title = "123"
  /\ pure.doc.frontmatter.tags = <<"123", "imported">>
  /\ pure.doc.content = <<NL, Word("body"), NL>>
  /\ pure.out[1].content = <<Word("body")>>

(***************************************************************************)
(* Properties of planning (SpecPlan).                                      *)
(***************************************************************************)
\* C20: classifyPath, buildImportPlan and formatPlanSummary never write:
\* whatever the input path, the store and the conflict strategy, the
\* store's files and index, the intake directory and its manifest are after
\* the call what they were before it, so a dry run changes nothing.
C20_PlanningNeverWrites ==
  [][/\ files' = files
     /\ index' = index
     /\ sources' = sources
     /\ manager' = manager]_vars

\* C20 witness: a dry run over a store holding D-001 and an existing intake
\* directory was displayed, with an item renumbered or a file to copy.
C20_Witness ==
  /\ pure.fn = "plan"
  /\ pure.stage = "displayed"
  /\ files # {}
  /\ sources.exists
  /\ sources.manifestFile # <<>>
  /\ \E i \in DOMAIN pure.out[1] :
       \/ /\ pure.out[1][i][1] = "import"
          /\ pure.out[1][i][2] = D001
          /\ pure.out[1][i][3] = D002
       \/ /\ pure.out[1][i][1] = "copy"
          /\ pure.out[1][i][2] = "B.TXT"
          /\ pure.out[1][i][3] # "B.TXT"

\* The copy items of the plan buildImportPlan returned.
BuiltPlan == pure.fn = "plan" /\ pure.stage = "built"

CopyTargets == Select(pure.out[1].items, "copy")

\* C21: every copy item of a built plan has a target in the intake
\* directory that does not exist at plan time, and no two copy items of one
\* plan share a target, so executing the plan overwrites neither an intake
\* file nor another item's copy.
C21_CopyTargetsAvoidCollisions ==
  BuiltPlan =>
    /\ \A i \in DOMAIN CopyTargets :
         ~(sources.exists /\ CopyTargets[i].targetPath \in DOMAIN sources.files)
    /\ \A i, j \in DOMAIN CopyTargets :
         CopyTargets[i].targetPath = CopyTargets[j].targetPath => i = j

\* A file whose frontmatter has an id <uppercase letters>-<3 or more
\* digits> and a type of the known types.
Conforming(file) ==
  /\ file.parses
  /\ {"id", "type"} \subseteq DOMAIN file.data
  /\ file.data.id.p \in {"A", "D", "M", "Q"}
  /\ Len(file.data.id.d) >= 3
  /\ file.data.type \in {"decision", "action", "question", "meeting"}

Classified == pure.fn = "plan" /\ pure.stage = "classified"

\* C22: classifyPath returns the first match of its rules.  A directory
\* named .marvin or holding config.yaml is a marvin-project; else one with
\* a subdirectory named after a known document-type directory is a
\* docs-directory; else one with a markdown file of conforming frontmatter
\* is a docs-directory; else it is a raw-source-dir.  A markdown file of
\* conforming frontmatter is a marvin-document, every other file a
\* raw-source-file.
C22_ClassifiesByPriority ==
  Classified =>
    LET path == pure.path
        type == pure.out[1]
    IN IF path.isDirectory
       THEN /\ (path.name = ".marvin" \/ path.hasConfig) => type = "marvin-project"
            /\ (path.name # ".marvin" /\ ~path.hasConfig) =>
                 /\ (path.subdirs \cap {"decisions", "actions", "questions", "meetings"} # {})
                      => type = "docs-directory"
                 /\ (path.subdirs \cap {"decisions", "actions", "questions", "meetings"} = {}) =>
                      IF \E i \in DOMAIN path.md : Conforming(path.md[i])
                      THEN type = "docs-directory"
                      ELSE type = "raw-source-dir"
       ELSE IF path.name = "a.md" /\ Conforming(path.md[1])
            THEN type = "marvin-document"
            ELSE type = "raw-source-file"

\* C22 witness: a directory holding config.yaml, a decisions subdirectory
\* and a conforming markdown file was classified as a project.
C22_Witness ==
  /\ Classified
  /\ pure.path.isDirectory
  /\ pure.path.name = "export"
  /\ pure.path.hasConfig
  /\ pure.path.subdirs = {"decisions"}
  /\ \E i \in DOMAIN pure.path.md : Conforming(pure.path.md[i])
  /\ pure.out[1] = "marvin-project"

(***************************************************************************)
(* More properties of the resolver (SpecResolve).                          *)
(***************************************************************************)
\* The store holds a document of the id.
StoreHolds(id) == \E f \in pure.fs : f.raw.data.id[2] = id

\* C23: resolveConflicts checks each incoming document against the store
\* only, never against the other documents of the batch: a document whose
\* id the store does not hold keeps it whatever the batch holds, and under
\* renumber two documents of one type that both conflict get the same new
\* id, which may be the id a non-conflicting document of the batch keeps.
C23_ResolvesAgainstStoreOnly ==
  Resolved =>
    LET r == pure.out[1].resolved
    IN /\ \A j \in DOMAIN r :
            ~StoreHolds(r[j].originalId) => r[j].newId = r[j].originalId
       /\ pure.strategy = "renumber" =>
            /\ Len(r) = Len(pure.incoming)
            /\ \A j \in DOMAIN r :
                 /\ r[j].originalId = pure.incoming[j].frontmatter.id
                 /\ StoreHolds(r[j].originalId) =>
                      r[j].newId = nextId(pure.fs, r[j].frontmatter.type)
            /\ \A j, k \in DOMAIN r :
                 (/\ StoreHolds(r[j].originalId)
                  /\ StoreHolds(r[k].originalId)
                  /\ r[j].frontmatter.type = r[k].frontmatter.type)
                   => r[j].newId = r[k].newId

\* C23 witness: the store holds D-001 alone, the batch is D-001 then D-002
\* and both resolve to D-002.
C23_Witness ==
  /\ Resolved
  /\ pure.strategy = "renumber"
  /\ \A f \in pure.fs : f.raw.data.id[2] = D001
  /\ StoreHolds(D001)
  /\ Len(pure.incoming) = 2
  /\ pure.incoming[1].frontmatter.id = D001
  /\ pure.incoming[2].frontmatter.id = D002
  /\ pure.out[1].resolved[1].newId = D002
  /\ pure.out[1].resolved[2].newId = D002

(***************************************************************************)
(* Properties of ingestFile (SpecIngest).                                  *)
(***************************************************************************)
IngestEntry == manager.manifest.files[pure.fileName]

\* C24: ingestFile marks the entry processing before the analysis starts;
\* when it returns the entry is completed with the ids of the artifacts
\* created during this ingestion and a processedAt timestamp; when it
\* throws the entry is error with the failure message; the entry is never
\* left in processing once ingestFile has finished.
C24_IngestReachesTerminalStatus ==
  pure.fn = "ingest" =>
    /\ pure.stage = "analyzing" => IngestEntry.status = "processing"
    /\ pure.stage = "returned" =>
         /\ IngestEntry.status = "completed"
         /\ IngestEntry.artifacts = pure.made
         /\ IngestEntry.processedAt # <<>>
    /\ pure.stage = "thrown" =>
         /\ IngestEntry.status = "error"
         /\ IngestEntry.error = <<pure.error>>
    /\ pure.stage \in {"returned", "thrown"} => IngestEntry.status # "processing"

(***************************************************************************)
(* More properties of the import (SpecImport).                             *)
(***************************************************************************)
\* C25: executeImportPlan on the plan buildImportPlan has just produced
\* from the same store never fails with an 'already exists' conflict: every
\* import item ends up stored under its newId, and the result reports the
\* number of import items as imported, of skip items as skipped and of copy
\* items as copied.
C25_FreshPlanExecutes ==
  [][ExecStep =>
       /\ CurItem.action = "import" => Has(files', CurItem.newId)
       /\ plan' = NoPlan =>
            /\ lastOp'.err = ""
            /\ lastOp'.result = <<Len(Select(plan.items, "import")),
                                  Len(Select(plan.items, "skip")),
                                  Len(Select(plan.items, "copy"))>>]_vars

(***************************************************************************)
(* Properties of an ingestion in flight (SpecInFlight).                    *)
(***************************************************************************)
\* C26: no content change of a source file is lost to an ingestion already
\* in flight: when a scan reset the entry to pending while the file was
\* being processed, the file is still reported by unprocessed() after that
\* ingestion has finished: its entry is not completed under the hash of a
\* content that was not the content ingested.
C26_NoLostChange ==
  (pure.fn = "inFlight" /\ pure.stage = "idle"
     /\ mOp.op \in {"markCompleted", "markError"}) =>
    (pure.reset =>
       /\ pure.fileName \in unprocessed(manager.manifest)
       /\ manager.manifest.files[pure.fileName].status = "completed" =>
            manager.manifest.files[pure.fileName].hash = hashFile(pure.ingested))

(***************************************************************************)
(* Properties of a plan executed on a store written to in between          *)
(* (SpecSnapshot).                                                         *)
(***************************************************************************)
\* C27: when another write reaches the store between buildImportPlan and
\* executeImportPlan, executing the plan under renumber or skip never
\* overwrites the document written in between and never adds a second
\* document with its id: the conflicting item is rejected with an error
\* instead.
C27_SnapshotPlanNeverOverwrites ==
  [][(ExecStep /\ plan.conflict \in {"renumber", "skip"} /\ pure.fn = "between") =>
       /\ pure.written \subseteq files'
       /\ \A f \in files' \ files :
            ~\E g \in pure.written : g.raw.data.id = f.raw.data.id]_vars

(***************************************************************************)
(* More properties of the manifest (SpecManifest).                         *)
(***************************************************************************)
\* C28: in every manifest a manager holds after any sequence of scan,
\* markProcessing, markCompleted and markError, a pending entry has no
\* artifacts, no processedAt and no error; a completed entry has a
\* processedAt and no error; an error entry has an error message.
C28_EntryFieldsFitStatus ==
  manager.constructed =>
    \A f \in DOMAIN manager.manifest.files :
      LET entry == manager.manifest.files[f]
      IN /\ entry.status = "pending" =>
              /\ entry.artifacts = <<>>
              /\ entry.processedAt = <<>>
              /\ entry.error = <<>>
         /\ entry.status = "completed" =>
              /\ entry.processedAt # <<>>
              /\ entry.error = <<>>
         /\ entry.status = "error" => entry.error # <<>>

\* C28 witness: a scan has just reset a changed file to pending while
\* another entry, once completed, is in error.
C28_Witness ==
  /\ manager.constructed
  /\ mOp.op = "scan"
  /\ \E f, g \in DOMAIN manager.manifest.files :
       /\ f \in mOp.result.changed
       /\ manager.manifest.files[f].status = "pending"
       /\ manager.manifest.files[g].status = "error"
       /\ manager.manifest.files[g].processedAt # <<>>

\* C29: the manifest file is written wholesale on every mutating call:
\* after each scan, markProcessing, markCompleted and markError a new
\* manager constructed on the same directory observes exactly the entries
\* held by the instance that made the call.
C29_NewManagerSeesSameEntries ==
  (/\ manager.constructed
   /\ mOp.op \in {"scan", "markProcessing", "markCompleted", "markError"}
   /\ mOp.err = "") =>
    /\ load(sources).err = ""
    /\ load(sources).manifest.files = manager.manifest.files

(***************************************************************************)
(* Properties of the AEM phase (SpecAem).                                  *)
(***************************************************************************)
\* The place of a phase in the order assess-use-case, assess-technology,
\* define-solution.
Rank(phase) ==
  CASE phase = "assess-use-case"   -> 1
    [] phase = "assess-technology" -> 2
    [] phase = "define-solution"   -> 3

\* A step that is a call of advance_phase on a config that has a phase.
AdvanceStep ==
  /\ pure.fn = "aem"
  /\ pure.config # <<>>
  /\ pure'.useCases = pure.useCases
  /\ pure'.techAssessments = pure.techAssessments
  /\ pure' # pure

\* C30: under any sequence of advance_phase calls the phase in config.yaml
\* only moves forward: without a target it advances by exactly one phase;
\* with a target it moves there only when the target is strictly later; a
\* target at or before the current phase returns an error and leaves the
\* phase unchanged; at the final phase a call without target changes
\* nothing; gate-check warnings never block an advance.
C30_PhaseOnlyMovesForward ==
  [][AdvanceStep =>
       LET r == pure'.result[1]
           args == pure'.args
           from == Rank(pure.config[1])
           to == Rank(pure'.config[1])
       IN /\ to >= from
          /\ (args = <<>> /\ from < Len(PHASES)) =>
               (to = from + 1 /\ ~r.isError)
          /\ (args = <<>> /\ from = Len(PHASES)) =>
               (pure'.config = pure.config /\ ~r.isError)
          /\ (args # <<>> /\ Rank(args[1]) > from) =>
               (pure'.config = args /\ ~r.isError)
          /\ (args # <<>> /\ Rank(args[1]) <= from) =>
               (pure'.config = pure.config /\ r.isError)]_vars

\* An advance from assess-use-case straight to define-solution went through
\* although both gate checks warned.
C30_Witness ==
  /\ pure.fn = "aem"
  /\ pure.result # <<>>
  /\ pure.previous = <<"assess-use-case">>
  /\ pure.args = <<"define-solution">>
  /\ pure.config = <<"define-solution">>
  /\ Len(pure.result[1].warnings) = 2

====
